---- MODULE Spec2Model ----
(***************************************************************************)
(* Model of the incremental clustering engine of soulcaster,               *)
(* backend/clustering_runner_v2.py (VectorDBClusteringEngine.cluster_batch  *)
(* and its three phases: query the vector index, resolve in memory with an  *)
(* audit trail, batch upsert).                                              *)
(*                                                                          *)
(* Similarity scores are fixed-point numbers in thousandths (720 = 0.72).   *)
(* Embeddings are integer vectors whose Euclidean norm is an integer, so    *)
(* that cosine_similarity is computed exactly.                              *)
(***************************************************************************)
EXTENDS Integers, Sequences, FiniteSets, TLC

\* ------------------------------------------------------------------ bounds
MaxBatch == 4        \* longest batch handed to cluster_batch
MaxJobs == 2         \* maybe_start_clustering calls for the project
MaxContent == 5      \* longest content handed to chunk_file_content
MaxIssues == 3       \* longest list of issues handed to cluster_issues and
                     \* to prepare_issue_texts

\* ------------------------------------------------------- program constants
sim_threshold == 720       \* sim_threshold: float = 0.72
ec_retry_attempts == 3     \* ec_retry_attempts: int = 3
Scale == 1000              \* fixed-point unit of a similarity score
UuidBase == 100            \* uuid4() values are disjoint from stored ids

\* ------------------------------------------------------------ input domain
\* SimilarFeedback objects the vector index can return.  metadata may be
\* None (present = FALSE) and metadata.cluster_id may be None/"" (0).
NoMeta == [present |-> FALSE, cluster_id |-> 0]
Meta(c) == [present |-> TRUE, cluster_id |-> c]
Match(id, score, meta) == [id |-> id, score |-> score, metadata |-> meta]

\* The feedback items of the store, keyed by id (ids are unique).
ItemPool ==
  [k \in 1..7 |-> [id |-> k, title |-> k, source |-> "manual", created_at |-> k]]

\* embeddings[i] of each item, as the embedding provider returned it
Embedding ==
  [k \in DOMAIN ItemPool |->
     CASE k = 1 -> <<10, 0, 0, 0>>
       [] k = 2 -> <<9, 3, 3, 1>>
       [] k = 3 -> <<0, 0, 10, 0>>
       [] k = 4 -> <<0, 10, 0, 0>>
       [] k = 5 -> <<8, 6, 0, 0>>
       [] k = 6 -> <<3, 4, 0, 0>>
       [] OTHER -> <<0, 0, 0, 0>>]

\* what vector_store.find_similar returns for the embedding of each item
\* when it does not raise (the index is free to ignore min_score)
IndexAnswer ==
  [k \in DOMAIN ItemPool |->
     CASE k = 3 -> <<Match(51, 800, Meta(9))>>
       [] k = 5 -> <<Match(52, 950, NoMeta), Match(53, 900, Meta(0)),
                     Match(54, 750, Meta(7)), Match(51, 900, Meta(9))>>
       [] k = 6 -> <<Match(55, 500, Meta(7))>>
       [] k = 7 -> <<Match(52, 800, NoMeta)>>
       [] OTHER -> <<>>]

\* The vector index before the batch: id -> cluster_id (0: not clustered).
InitialIndex == [x \in 51..55 |->
                   CASE x = 51 -> 9 [] x = 54 -> 7 [] x = 55 -> 7 [] OTHER -> 0]

Batches ==
  UNION {{s \in [1..n -> DOMAIN ItemPool] :
            \A a, b \in 1..n : a /= b => s[a] /= s[b]} : n \in 0..MaxBatch}

\* ------------------------------------------------------------------- state
VARIABLES
  items,             \* the batch: item ids in batch order
  pc,                \* position inside cluster_batch
  i,                 \* loop index of the running phase (1-based)
  attempt,           \* attempt of the retry loop, as in range(R)
  existing_matches,  \* Dict[item_id] -> list of matches
  item_to_cluster,   \* Dict[item_id] -> cluster_id
  audit_trail,       \* Dict[item_id] -> ClusteringDecision
  cluster_members,   \* dict in insertion order: <<[cid, members]>>
  upserts,           \* records prepared for the batch upsert
  index,             \* the vector index: id -> cluster_id
  store_upserts,     \* calls of vector_store.upsert_feedback_batch
  minted,            \* number of uuid4() cluster ids minted
  result,            \* the ClusteringResult, once returned
  calls,             \* find_similar calls made for the item queried last
  sleeps,            \* time.sleep(ec_retry_delay) calls made for that item
  last_call,         \* outcome of the latest find_similar call
  phase3_entries     \* invocations of _batch_upsert

vars == <<items, pc, i, attempt, existing_matches, item_to_cluster,
          audit_trail, cluster_members, upserts, index, store_upserts,
          minted, result, calls, sleeps, last_call, phase3_entries>>

\* State of the other components of the repository.  Every specification of
\* this module moves the variables of one component and leaves the others at
\* rest.
VARIABLES
  job_rec,           \* cluster job records of the store: job id -> record
  lock,              \* holder of the per-project cluster lock (0: free)
  unclustered,       \* ids in the project's unclustered set
  cluster_store,     \* clusters of the store: cluster id -> member ids
  jpc,               \* position of each job in maybe_start_clustering /
                     \* run_clustering_job
  jlocal,            \* local variables of each job's run_clustering_job
  jhist,             \* per job: what it has done so far (history)
  fn_pc,             \* position of a library-function call
  fn_in,             \* its arguments
  fn_out             \* its return value

jobvars == <<job_rec, lock, unclustered, cluster_store, jpc, jlocal, jhist>>
fnvars == <<fn_pc, fn_in, fn_out>>

JobsAtRest ==
  /\ job_rec = <<>> /\ lock = 0 /\ unclustered = {} /\ cluster_store = <<>>
  /\ jpc = <<>> /\ jlocal = <<>> /\ jhist = <<>>
FnAtRest == fn_pc = "rest" /\ fn_in = <<>> /\ fn_out = <<>>

N == Len(items)
NoResult == [items_clustered |-> -1, new_clusters |-> <<>>,
             updated_clusters |-> <<>>, audit_trail |-> <<>>,
             clusters |-> <<>>]

\* ----------------------------------------------------------------- helpers
RECURSIVE SumTo(_, _)
SumTo(f, n) == IF n = 0 THEN 0 ELSE f[n] + SumTo(f, n - 1)

Dot(a, b) == SumTo([k \in 1..Len(a) |-> a[k] * b[k]], Len(a))

\* np.linalg.norm on vectors whose norm is an integer
Norm(a) == CHOOSE r \in 0..Dot(a, a) : r * r = Dot(a, a)

cosine_similarity(a, b) ==
  IF Norm(a) = 0 \/ Norm(b) = 0 THEN 0
  ELSE (Dot(a, b) * Scale) \div (Norm(a) * Norm(b))

\* dict[key] = value on a function used as a dict
Put(d, k, v) == [x \in DOMAIN d \cup {k} |-> IF x = k THEN v ELSE d[x]]

\* str(uuid4()): the n-th id minted, never equal to an earlier or a stored id
uuid4_repeat(n) == UuidBase + 1
uuid4(n) == UuidBase + n + 1

\* positions of cid in the insertion-ordered dict cluster_members
Slot(cm, cid) == {k \in 1..Len(cm) : cm[k].cid = cid}

\* cluster_members.setdefault(cluster_id, [item_id]).append(item_id)
AppendMember_setdefault(cm, cid, id) ==
  IF Slot(cm, cid) = {}
  THEN Append(cm, [cid |-> cid, members |-> <<id, id>>])
  ELSE [k \in 1..Len(cm) |->
          IF cm[k].cid = cid
          THEN [cid |-> cid, members |-> Append(cm[k].members, id)]
          ELSE cm[k]]

\* if cluster_id not in cluster_members: cluster_members[cluster_id] = []
\* cluster_members[cluster_id].append(item_id)
AppendMember(cm, cid, id) ==
  IF Slot(cm, cid) = {}
  THEN Append(cm, [cid |-> cid, members |-> <<id>>])
  ELSE [k \in 1..Len(cm) |->
          IF cm[k].cid = cid
          THEN [cid |-> cid, members |-> Append(cm[k].members, id)]
          ELSE cm[k]]

IsClustered(s) == s.metadata.present /\ s.metadata.cluster_id /= 0

clustered_existing_best(similar) ==
  LET kept == SelectSeq(similar, IsClustered)
      best == CHOOSE k \in 1..Len(kept) :
                \A l \in 1..Len(kept) : kept[l].score <= kept[k].score
  IN IF kept = <<>> THEN <<>> ELSE <<kept[best]>>

\* [s for s in existing_matches[item_id] if s.metadata and s.metadata.cluster_id]
clustered_existing(similar) == SelectSeq(similar, IsClustered)

BatchCandidates_nothreshold(pos, its, itc) ==
  {j \in 1..(pos - 1) :
     /\ its[j] \in DOMAIN itc
     /\ cosine_similarity(Embedding[its[pos]], Embedding[its[j]]) > 0}

\* the earlier batch positions the join-batch scan accepts
BatchCandidates(pos, its, itc) ==
  {j \in 1..(pos - 1) :
     /\ its[j] \in DOMAIN itc
     /\ cosine_similarity(Embedding[its[pos]],
                          Embedding[its[j]]) >= sim_threshold}

LastBatchMatch(pos, its, itc) ==
  CHOOSE j \in BatchCandidates(pos, its, itc) :
    \A k \in BatchCandidates(pos, its, itc) : j >= k

\* for j in range(i): ... break   -- the first accepted position
FirstBatchMatch(pos, its, itc) ==
  CHOOSE j \in BatchCandidates(pos, its, itc) :
    \A k \in BatchCandidates(pos, its, itc) : j <= k

\* the list a successful vector_store.find_similar(...) call returns
find_similar(id) == IndexAnswer[id]

Decision(id, cid, type, score, matched) ==
  [item_id |-> id, cluster_id |-> cid, decision_type |-> type,
   similarity_score |-> score, matched_item_id |-> matched]

\* ------------------------------------------------------------------ Init
Init ==
  /\ items \in Batches
  /\ pc = "phase1"
  /\ i = 1
  /\ attempt = 0
  /\ existing_matches = <<>>
  /\ item_to_cluster = <<>>
  /\ audit_trail = <<>>
  /\ cluster_members = <<>>
  /\ upserts = <<>>
  /\ index = InitialIndex
  /\ store_upserts = 0
  /\ minted = 0
  /\ result = NoResult
  /\ calls = 0
  /\ sleeps = 0
  /\ last_call = "none"
  /\ phase3_entries = 0
  /\ JobsAtRest /\ FnAtRest

\* ------------------------------------------- Phase 1: _query_existing_items
\* the history counters restart with the first attempt for an item
CallCount == IF attempt = 0 THEN 1 ELSE calls + 1
SleepCount == IF attempt = 0 THEN 0 ELSE sleeps

FindSimilarOk_retry_empty ==
  /\ pc = "phase1" /\ i <= N /\ attempt < ec_retry_attempts
  /\ calls' = CallCount /\ sleeps' = SleepCount /\ last_call' = "ok"
  /\ IF find_similar(items[i]) = <<>> /\ attempt < ec_retry_attempts - 1
     THEN /\ pc' = "sleep"
          /\ UNCHANGED <<i, attempt, existing_matches>>
     ELSE /\ existing_matches' = Put(existing_matches, items[i],
                                     find_similar(items[i]))
          /\ i' = i + 1
          /\ attempt' = 0
          /\ pc' = pc
  /\ UNCHANGED <<items, item_to_cluster, audit_trail, cluster_members,
                 upserts, index, store_upserts, minted, result, phase3_entries>>
  /\ UNCHANGED <<jobvars, fnvars>>

\* find_similar returns: similar = ...; break; existing_matches[item_id] = similar
FindSimilarOk ==
  /\ pc = "phase1" /\ i <= N /\ attempt < ec_retry_attempts
  /\ calls' = CallCount /\ sleeps' = SleepCount /\ last_call' = "ok"
  /\ existing_matches' = Put(existing_matches, items[i], find_similar(items[i]))
  /\ i' = i + 1
  /\ attempt' = 0
  /\ UNCHANGED <<items, pc, item_to_cluster, audit_trail, cluster_members,
                 upserts, index, store_upserts, minted, result, phase3_entries>>
  /\ UNCHANGED <<jobvars, fnvars>>

FindSimilarRetry_nosleep ==
  /\ pc = "phase1" /\ i <= N /\ attempt < ec_retry_attempts - 1
  /\ calls' = CallCount /\ sleeps' = SleepCount /\ last_call' = "raised"
  /\ attempt' = attempt + 1
  /\ UNCHANGED <<items, pc, i, existing_matches, item_to_cluster,
                 audit_trail, cluster_members, upserts, index, store_upserts,
                 minted, result, phase3_entries>>
  /\ UNCHANGED <<jobvars, fnvars>>

\* find_similar raises and attempt < R - 1: log, then sleep
FindSimilarRetry ==
  /\ pc = "phase1" /\ i <= N /\ attempt < ec_retry_attempts - 1
  /\ calls' = CallCount /\ sleeps' = SleepCount /\ last_call' = "raised"
  /\ pc' = "sleep"
  /\ UNCHANGED <<items, i, attempt, existing_matches, item_to_cluster,
                 audit_trail, cluster_members, upserts, index, store_upserts,
                 minted, result, phase3_entries>>
  /\ UNCHANGED <<jobvars, fnvars>>

\* time.sleep(self.ec_retry_delay), then the next attempt of the for loop
Sleep ==
  /\ pc = "sleep"
  /\ sleeps' = sleeps + 1
  /\ attempt' = attempt + 1
  /\ pc' = "phase1"
  /\ UNCHANGED <<items, i, existing_matches, item_to_cluster, audit_trail,
                 cluster_members, upserts, index, store_upserts, minted,
                 result, calls, last_call, phase3_entries>>
  /\ UNCHANGED <<jobvars, fnvars>>

FindSimilarFail_swallow ==
  /\ pc = "phase1" /\ i <= N /\ attempt = ec_retry_attempts - 1
  /\ calls' = CallCount /\ sleeps' = SleepCount /\ last_call' = "raised"
  /\ existing_matches' = Put(existing_matches, items[i], <<>>)
  /\ i' = i + 1
  /\ attempt' = 0
  /\ UNCHANGED <<items, pc, item_to_cluster, audit_trail, cluster_members,
                 upserts, index, store_upserts, minted, result, phase3_entries>>
  /\ UNCHANGED <<jobvars, fnvars>>

\* find_similar raises on the last attempt: log and re-raise out of cluster_batch
FindSimilarFail ==
  /\ pc = "phase1" /\ i <= N /\ attempt = ec_retry_attempts - 1
  /\ calls' = CallCount /\ sleeps' = SleepCount /\ last_call' = "raised"
  /\ pc' = "raised"
  /\ UNCHANGED <<items, i, attempt, existing_matches, item_to_cluster,
                 audit_trail, cluster_members, upserts, index, store_upserts,
                 minted, result, phase3_entries>>
  /\ UNCHANGED <<jobvars, fnvars>>

\* return existing_matches
QueryReturn ==
  /\ pc = "phase1" /\ i > N
  /\ pc' = "phase2"
  /\ i' = 1
  /\ UNCHANGED <<items, attempt, existing_matches, item_to_cluster,
                 audit_trail, cluster_members, upserts, index, store_upserts,
                 minted, result, calls, sleeps, last_call, phase3_entries>>
  /\ UNCHANGED <<jobvars, fnvars>>

\* ----------------------------------- Phase 2: _cluster_in_memory_with_audit
\* Check 1: join the cluster of the first clustered match
JoinExisting ==
  /\ pc = "phase2" /\ i <= N
  /\ clustered_existing(existing_matches[items[i]]) /= <<>>
  /\ LET target == clustered_existing(existing_matches[items[i]])[1]
         cid == target.metadata.cluster_id
     IN /\ item_to_cluster' = Put(item_to_cluster, items[i], cid)
        /\ audit_trail' = Put(audit_trail, items[i],
              Decision(items[i], cid, "joined_existing", target.score, target.id))
        /\ cluster_members' = AppendMember(cluster_members, cid, items[i])
  /\ i' = i + 1
  /\ UNCHANGED <<items, pc, attempt, existing_matches, upserts, index,
                 store_upserts, minted, result, calls, sleeps, last_call,
                 phase3_entries>>
  /\ UNCHANGED <<jobvars, fnvars>>

JoinBatch_unguarded ==
  /\ pc = "phase2" /\ i <= N
  /\ BatchCandidates(i, items, item_to_cluster) /= {}
  /\ LET j == FirstBatchMatch(i, items, item_to_cluster)
         cid == item_to_cluster[items[j]]
         similarity == cosine_similarity(Embedding[items[i]],
                                         Embedding[items[j]])
     IN /\ item_to_cluster' = Put(item_to_cluster, items[i], cid)
        /\ audit_trail' = Put(audit_trail, items[i],
              Decision(items[i], cid, "joined_batch", similarity, items[j]))
        /\ cluster_members' = AppendMember(cluster_members, cid, items[i])
  /\ i' = i + 1
  /\ UNCHANGED <<items, pc, attempt, existing_matches, upserts, index,
                 store_upserts, minted, result, calls, sleeps, last_call,
                 phase3_entries>>
  /\ UNCHANGED <<jobvars, fnvars>>

\* Check 2: join the cluster of the first similar earlier batch item
JoinBatch ==
  /\ pc = "phase2" /\ i <= N
  /\ clustered_existing(existing_matches[items[i]]) = <<>>
  /\ BatchCandidates(i, items, item_to_cluster) /= {}
  /\ LET j == FirstBatchMatch(i, items, item_to_cluster)
         cid == item_to_cluster[items[j]]
         similarity == cosine_similarity(Embedding[items[i]],
                                         Embedding[items[j]])
     IN /\ item_to_cluster' = Put(item_to_cluster, items[i], cid)
        /\ audit_trail' = Put(audit_trail, items[i],
              Decision(items[i], cid, "joined_batch", similarity, items[j]))
        /\ cluster_members' = AppendMember(cluster_members, cid, items[i])
  /\ i' = i + 1
  /\ UNCHANGED <<items, pc, attempt, existing_matches, upserts, index,
                 store_upserts, minted, result, calls, sleeps, last_call,
                 phase3_entries>>
  /\ UNCHANGED <<jobvars, fnvars>>

CreateNew_eager ==
  /\ pc = "phase2" /\ i <= N
  /\ clustered_existing(existing_matches[items[i]]) = <<>>
  /\ BatchCandidates(i, items, item_to_cluster) = {}
  /\ LET cid == uuid4(minted)
     IN /\ item_to_cluster' = Put(item_to_cluster, items[i], cid)
        /\ audit_trail' = Put(audit_trail, items[i],
              Decision(items[i], cid, "created_new", -1, 0))
        /\ cluster_members' = AppendMember(cluster_members, cid, items[i])
        /\ index' = Put(index, items[i], cid)
  /\ store_upserts' = store_upserts + 1
  /\ minted' = minted + 1
  /\ i' = i + 1
  /\ UNCHANGED <<items, pc, attempt, existing_matches, upserts, result,
                 calls, sleeps, last_call, phase3_entries>>
  /\ UNCHANGED <<jobvars, fnvars>>

\* Check 3: cluster_id = str(uuid4())
CreateNew ==
  /\ pc = "phase2" /\ i <= N
  /\ clustered_existing(existing_matches[items[i]]) = <<>>
  /\ BatchCandidates(i, items, item_to_cluster) = {}
  /\ LET cid == uuid4(minted)
     IN /\ item_to_cluster' = Put(item_to_cluster, items[i], cid)
        /\ audit_trail' = Put(audit_trail, items[i],
              Decision(items[i], cid, "created_new", -1, 0))
        /\ cluster_members' = AppendMember(cluster_members, cid, items[i])
  /\ minted' = minted + 1
  /\ i' = i + 1
  /\ UNCHANGED <<items, pc, attempt, existing_matches, upserts, index,
                 store_upserts, result, calls, sleeps, last_call,
                 phase3_entries>>
  /\ UNCHANGED <<jobvars, fnvars>>

\* clusters = [(cluster_id, members) ...]; return clusters, audit_trail
ClusterReturn ==
  /\ pc = "phase2" /\ i > N
  /\ pc' = "prepare"
  /\ UNCHANGED <<items, i, attempt, existing_matches, item_to_cluster,
                 audit_trail, cluster_members, upserts, index, store_upserts,
                 minted, result, calls, sleeps, last_call, phase3_entries>>
  /\ UNCHANGED <<jobvars, fnvars>>

\* ------------------------------------------------- Phase 3: batch upsert
\* item_to_cluster = {id: c for c, ids in clusters for id in ids}
ClusterOf(cm, id) ==
  LET slots == {k \in 1..Len(cm) : \E m \in 1..Len(cm[k].members) :
                                      cm[k].members[m] = id}
  IN cm[CHOOSE k \in slots : \A l \in slots : l <= k].cid

UpsertRecord(cm, id) ==
  [id |-> id, embedding |-> Embedding[id],
   metadata |-> [title |-> ItemPool[id].title, source |-> ItemPool[id].source,
                 cluster_id |-> ClusterOf(cm, id),
                 created_at |-> ItemPool[id].created_at]]

\* _prepare_upserts
PrepareUpserts ==
  /\ pc = "prepare"
  /\ upserts' = [k \in 1..N |-> UpsertRecord(cluster_members, items[k])]
  /\ pc' = "upsert"
  /\ UNCHANGED <<items, i, attempt, existing_matches, item_to_cluster,
                 audit_trail, cluster_members, index, store_upserts, minted,
                 result, calls, sleeps, last_call, phase3_entries>>
  /\ UNCHANGED <<jobvars, fnvars>>

\* what _batch_upsert does to the vector index: the call of
\* vector_store.upsert_feedback_batch is commented out, only a log line runs
IndexAfterUpsert(idx, ups) == idx
StoreCallsAfterUpsert(n, ups) == n

\* _batch_upsert
BatchUpsert ==
  /\ pc = "upsert"
  /\ phase3_entries' = phase3_entries + 1
  /\ IF upserts = <<>>
     THEN UNCHANGED <<index, store_upserts>>
     ELSE /\ index' = IndexAfterUpsert(index, upserts)
          /\ store_upserts' = StoreCallsAfterUpsert(store_upserts, upserts)
  /\ pc' = "aggregate"
  /\ UNCHANGED <<items, i, attempt, existing_matches, item_to_cluster,
                 audit_trail, cluster_members, upserts, minted, result,
                 calls, sleeps, last_call>>
  /\ UNCHANGED <<jobvars, fnvars>>

BatchUpsertRaise_returning ==
  /\ pc = "upsert" /\ upserts /= <<>>
  /\ phase3_entries' = phase3_entries + 1
  /\ result' = [NoResult EXCEPT !.items_clustered = N,
                                !.audit_trail = audit_trail]
  /\ pc' = "upsert_raised"
  /\ UNCHANGED <<items, i, attempt, existing_matches, item_to_cluster,
                 audit_trail, cluster_members, upserts, index, store_upserts,
                 minted, calls, sleeps, last_call>>
  /\ UNCHANGED <<jobvars, fnvars>>

\* an exception raised while _batch_upsert runs: cluster_batch has no handler
\* around the call, the exception leaves cluster_batch
BatchUpsertRaise ==
  /\ pc = "upsert" /\ upserts /= <<>>
  /\ phase3_entries' = phase3_entries + 1
  /\ pc' = "upsert_raised"
  /\ UNCHANGED <<items, i, attempt, existing_matches, item_to_cluster,
                 audit_trail, cluster_members, upserts, index, store_upserts,
                 minted, result, calls, sleeps, last_call>>
  /\ UNCHANGED <<jobvars, fnvars>>

\* ------------------------------------------------------ result aggregation
ClusterIds(cm) == [k \in 1..Len(cm) |-> cm[k].cid]

new_cluster_ids_all(cm, audit) ==
  SelectSeq(ClusterIds(cm),
            LAMBDA c : \A id \in DOMAIN audit :
                          audit[id].cluster_id = c
                            => audit[id].decision_type = "created_new")

\* cluster ids with a created_new decision in the audit trail
new_cluster_ids(cm, audit) ==
  SelectSeq(ClusterIds(cm),
            LAMBDA c : \E id \in DOMAIN audit :
                          /\ audit[id].cluster_id = c
                          /\ audit[id].decision_type = "created_new")

updated_cluster_ids_unjoined(cm, audit) ==
  SelectSeq(ClusterIds(cm),
            LAMBDA c : /\ \A k \in 1..Len(new_cluster_ids(cm, audit)) :
                            new_cluster_ids(cm, audit)[k] /= c
                       /\ \A id \in DOMAIN audit :
                            audit[id].cluster_id = c
                              => audit[id].decision_type /= "joined_batch")

\* [c for c, _ in clusters if c not in new_cluster_ids]
updated_cluster_ids(cm, audit) ==
  SelectSeq(ClusterIds(cm),
            LAMBDA c : \A k \in 1..Len(new_cluster_ids(cm, audit)) :
                          new_cluster_ids(cm, audit)[k] /= c)

\* return ClusteringResult(...)
Return ==
  /\ pc = "aggregate"
  /\ result' = [items_clustered |-> N,
                new_clusters |-> new_cluster_ids(cluster_members, audit_trail),
                updated_clusters |-> updated_cluster_ids(cluster_members, audit_trail),
                audit_trail |-> audit_trail,
                clusters |-> [c \in {cluster_members[k].cid : k \in 1..Len(cluster_members)} |->
                               cluster_members[CHOOSE k \in 1..Len(cluster_members) :
                                                 cluster_members[k].cid = c].members]]
  /\ pc' = "returned"
  /\ UNCHANGED <<items, i, attempt, existing_matches, item_to_cluster,
                 audit_trail, cluster_members, upserts, index, store_upserts,
                 minted, calls, sleeps, last_call, phase3_entries>>
  /\ UNCHANGED <<jobvars, fnvars>>

Next ==
  \/ FindSimilarOk
  \/ FindSimilarRetry
  \/ Sleep
  \/ FindSimilarFail
  \/ QueryReturn
  \/ JoinExisting
  \/ JoinBatch
  \/ CreateNew
  \/ ClusterReturn
  \/ PrepareUpserts
  \/ BatchUpsert
  \/ BatchUpsertRaise
  \/ Return

Spec == Init /\ [][Next]_vars
\* ------------------------------------------------------------ properties
Range(s) == {s[k] : k \in 1..Len(s)}

\* every (cluster, position) slot of a cluster_id -> member-list map
MemberSlots(cl) == UNION {{<<c, m>> : m \in 1..Len(cl[c])} : c \in DOMAIN cl}

\* position of an item id in the batch
PosOf(id) == CHOOSE k \in 1..N : items[k] = id

\* first match, in the order the index returned them, that carries a cluster_id
HasClusteredMatch(ms) ==
  \E k \in 1..Len(ms) : ms[k].metadata.present /\ ms[k].metadata.cluster_id /= 0
FirstClusteredMatch(ms) ==
  ms[CHOOSE k \in 1..Len(ms) :
       /\ ms[k].metadata.present /\ ms[k].metadata.cluster_id /= 0
       /\ \A l \in 1..(k - 1) :
            ~(ms[l].metadata.present /\ ms[l].metadata.cluster_id /= 0)]

Cos(a, b) == cosine_similarity(Embedding[a], Embedding[b])

\* C1: after cluster_batch returns for a batch of n items, every item has
\* exactly one decision in audit_trail and its id occurs exactly once in the
\* member lists of clusters; audit_trail and the member lists have n entries.
Thm_C1 ==
  pc = "returned" =>
    /\ DOMAIN result.audit_trail = Range(items)
    /\ Cardinality(DOMAIN result.audit_trail) = N
    /\ \A id \in Range(items) :
         /\ result.audit_trail[id].item_id = id
         /\ Cardinality({sl \in MemberSlots(result.clusters) :
                           result.clusters[sl[1]][sl[2]] = id}) = 1
         /\ \E m \in 1..Len(result.clusters[result.audit_trail[id].cluster_id]) :
              result.clusters[result.audit_trail[id].cluster_id][m] = id
    /\ Cardinality(MemberSlots(result.clusters)) = N
    /\ result.items_clustered = N

Wit_C1 ==
  /\ pc = "returned" /\ N >= 3
  /\ \E c \in DOMAIN result.clusters : Len(result.clusters[c]) >= 2
  /\ Cardinality(DOMAIN result.clusters) >= 2

\* C2: a cluster id of the result is in new_clusters iff it was minted in
\* this batch by a created_new decision, every other one is in
\* updated_clusters; the two lists are disjoint and cover the keys of clusters.
Thm_C2 ==
  pc = "returned" =>
    LET new == Range(result.new_clusters)
        upd == Range(result.updated_clusters)
        keys == DOMAIN result.clusters
        created == {result.audit_trail[id].cluster_id :
                      id \in {x \in DOMAIN result.audit_trail :
                                result.audit_trail[x].decision_type = "created_new"}}
    IN /\ new = created
       /\ new = {c \in keys : c > UuidBase}
       /\ upd = keys \ new
       /\ new \cap upd = {}
       /\ new \cup upd = keys
       /\ Len(result.new_clusters) = Cardinality(new)
       /\ Len(result.updated_clusters) = Cardinality(upd)

Wit_C2 ==
  /\ pc = "returned"
  /\ result.new_clusters /= <<>> /\ result.updated_clusters /= <<>>
  /\ \E c \in Range(result.new_clusters) : Len(result.clusters[c]) >= 2

\* C3: an item whose Phase-1 matches include a match carrying a cluster_id
\* joins the cluster of the first such match in the order returned by the
\* index; the decision is joined_existing with that match's score and id.
Thm_C3 ==
  \A id \in DOMAIN audit_trail :
    HasClusteredMatch(existing_matches[id]) =>
      LET m == FirstClusteredMatch(existing_matches[id])
      IN /\ audit_trail[id] =
              Decision(id, m.metadata.cluster_id, "joined_existing", m.score, m.id)
         /\ item_to_cluster[id] = m.metadata.cluster_id
         /\ \E k \in 1..Len(cluster_members) :
              /\ cluster_members[k].cid = m.metadata.cluster_id
              /\ id \in Range(cluster_members[k].members)

\* the decided item has unclustered matches ranked first and a clustered
\* match of higher score ranked after the one it joined
Wit_C3 ==
  \E id \in DOMAIN audit_trail :
    /\ audit_trail[id].decision_type = "joined_existing"
    /\ ~IsClustered(existing_matches[id][1])
    /\ \E k \in 1..Len(existing_matches[id]) :
         /\ IsClustered(existing_matches[id][k])
         /\ existing_matches[id][k].score > audit_trail[id].similarity_score

\* C4: an item with no Phase-1 match carrying a cluster_id joins the
\* cluster of the first earlier batch item with cosine >= threshold, as
\* joined_batch matched to that item; for the batch [A, B] with no existing
\* matches and cosine(A, B) >= threshold, A is created_new, B is joined_batch
\* matched to A, both in one cluster, reported new.
Thm_C4 ==
  /\ \A id \in DOMAIN audit_trail :
       LET p == PosOf(id)
           similar == {j \in 1..(p - 1) : Cos(id, items[j]) >= sim_threshold}
       IN (~HasClusteredMatch(existing_matches[id]) /\ similar /= {}) =>
            LET j == CHOOSE x \in similar : \A y \in similar : x <= y
            IN audit_trail[id] =
                 Decision(id, audit_trail[items[j]].cluster_id, "joined_batch",
                          Cos(id, items[j]), items[j])
  /\ (pc = "returned" /\ items = <<1, 2>>) =>
       /\ result.audit_trail[1].decision_type = "created_new"
       /\ result.audit_trail[2].decision_type = "joined_batch"
       /\ result.audit_trail[2].matched_item_id = 1
       /\ result.audit_trail[2].cluster_id = result.audit_trail[1].cluster_id
       /\ result.audit_trail[1].cluster_id \in Range(result.new_clusters)
       /\ DOMAIN result.clusters = {result.audit_trail[1].cluster_id}

\* the joined item has a second, later and more similar earlier batch item
Wit_C4 ==
  \E id \in DOMAIN audit_trail :
    /\ audit_trail[id].decision_type = "joined_batch"
    /\ \E k \in 1..(PosOf(id) - 1) :
         /\ k > PosOf(audit_trail[id].matched_item_id)
         /\ Cos(id, items[k]) > audit_trail[id].similarity_score

\* C5: the batch [item0, item1, item2, item3] with threshold 0.72,
\* sim(item0, item1) = 0.9, item2 matching pre-existing cluster C9 and item3
\* matching nothing is decided created_new(C_new), joined_batch(C_new,
\* matched item0), joined_existing(C9), created_new(C_new2), C_new /= C_new2,
\* new clusters {C_new, C_new2}, updated clusters {C9}.
Thm_C5 ==
  (pc = "returned" /\ items = <<1, 2, 3, 4>>) =>
    LET a == result.audit_trail
    IN /\ a[1].decision_type = "created_new"
       /\ a[2].decision_type = "joined_batch"
       /\ a[2].cluster_id = a[1].cluster_id
       /\ a[2].matched_item_id = 1
       /\ a[3].decision_type = "joined_existing"
       /\ a[3].cluster_id = 9
       /\ a[4].decision_type = "created_new"
       /\ a[4].cluster_id /= a[1].cluster_id
       /\ Range(result.new_clusters) = {a[1].cluster_id, a[4].cluster_id}
       /\ Range(result.updated_clusters) = {9}

Wit_C5 ==
  /\ pc = "returned" /\ items = <<1, 2, 3, 4>>
  /\ sim_threshold = 720
  /\ Cos(1, 2) = 900
  /\ \A a, b \in 1..4 : (a < b /\ <<a, b>> /= <<1, 2>>) => Cos(a, b) < sim_threshold
  /\ find_similar(1) = <<>> /\ find_similar(2) = <<>> /\ find_similar(4) = <<>>
  /\ \E k \in 1..Len(find_similar(3)) : find_similar(3)[k].metadata.cluster_id = 9
\* C6 (as claimed): every joined_existing and every joined_batch decision
\* has similarity_score >= sim_threshold, whatever find_similar returns.
CE_C6 ==
  \A id \in DOMAIN audit_trail :
    audit_trail[id].decision_type \in {"joined_existing", "joined_batch"}
      => audit_trail[id].similarity_score >= sim_threshold

\* C6 (amended): every joined_batch decision has similarity_score >=
\* sim_threshold; a joined_existing decision carries the score the index
\* reported for the matched item, which is >= sim_threshold when the matches
\* find_similar returned for the item all honour min_score.
Thm_C6 ==
  \A id \in DOMAIN audit_trail :
    /\ audit_trail[id].decision_type = "joined_batch"
         => audit_trail[id].similarity_score >= sim_threshold
    /\ audit_trail[id].decision_type = "joined_existing"
         => /\ \E k \in 1..Len(existing_matches[id]) :
                 /\ existing_matches[id][k].id = audit_trail[id].matched_item_id
                 /\ existing_matches[id][k].score = audit_trail[id].similarity_score
            /\ (\A k \in 1..Len(existing_matches[id]) :
                   existing_matches[id][k].score >= sim_threshold)
                 => audit_trail[id].similarity_score >= sim_threshold

Wit_C6 ==
  /\ \E id \in DOMAIN audit_trail :
       /\ audit_trail[id].decision_type = "joined_batch"
       /\ audit_trail[id].similarity_score < 800
  /\ \E id \in DOMAIN audit_trail :
       /\ audit_trail[id].decision_type = "joined_existing"
       /\ \A k \in 1..Len(existing_matches[id]) :
            existing_matches[id][k].score >= sim_threshold

\* the steps that call find_similar, record a decision, enter the upsert
QueryEvent ==
  \/ calls' /= calls
  \/ last_call' /= last_call
  \/ existing_matches' /= existing_matches
DecisionEvent == audit_trail' /= audit_trail
WriteEvent ==
  \/ index' /= index
  \/ store_upserts' /= store_upserts
  \/ phase3_entries' /= phase3_entries
PhaseOrder ==
  /\ QueryEvent =>
       /\ audit_trail = <<>> /\ ~DecisionEvent
       /\ index = InitialIndex /\ phase3_entries = 0 /\ ~WriteEvent
  /\ DecisionEvent =>
       /\ DOMAIN existing_matches = Range(items)
       /\ index = InitialIndex /\ phase3_entries = 0 /\ ~WriteEvent
  /\ WriteEvent =>
       /\ DOMAIN audit_trail = Range(items)
       /\ DOMAIN existing_matches = Range(items)
\* C7: the phases run in the order query, resolve, upsert without
\* interleaving: every find_similar call precedes the first decision, every
\* write to the vector index follows the last decision, and no query sees a
\* write of its own batch.
Thm_C7 == [][PhaseOrder]_vars

Wit_C7 ==
  /\ pc = "returned" /\ phase3_entries = 1
  /\ N >= 3 /\ calls >= 2
  /\ Cardinality(DOMAIN result.audit_trail) = N

\* C8: cluster_batch upserts every item of a non-empty batch to the vector
\* index in exactly one batch call, each record with the cluster decided for
\* the item, so that after a successful cluster_batch the index holds every
\* batch item with its cluster_id.
CE_C8 ==
  (pc = "returned" /\ N > 0) =>
    /\ store_upserts = 1
    /\ \A k \in 1..N :
         /\ items[k] \in DOMAIN index
         /\ index[items[k]] = result.audit_trail[items[k]].cluster_id

\* the retry loop's bookkeeping and the state an exhausted retry leaves
RetryState ==
  /\ calls <= ec_retry_attempts /\ sleeps <= ec_retry_attempts - 1
  /\ pc = "sleep" => /\ last_call = "raised"
                     /\ calls = attempt + 1 /\ sleeps = attempt
                     /\ calls < ec_retry_attempts
  /\ (last_call = "raised" /\ calls = ec_retry_attempts) => pc = "raised"
  /\ (last_call = "raised" /\ calls < ec_retry_attempts) =>
       \/ pc = "sleep"
       \/ pc = "phase1" /\ attempt = calls /\ sleeps = calls
  /\ pc = "raised" =>
       /\ calls = ec_retry_attempts /\ sleeps = ec_retry_attempts - 1
       /\ DOMAIN existing_matches = {items[k] : k \in 1..(i - 1)}
       /\ audit_trail = <<>> /\ item_to_cluster = <<>> /\ cluster_members = <<>>
       /\ upserts = <<>> /\ index = InitialIndex /\ store_upserts = 0
       /\ phase3_entries = 0 /\ result = NoResult
\* C9: a raising find_similar call is retried after a fixed delay, at most
\* ec_retry_attempts calls per item; when all attempts for an item raise the
\* exception leaves cluster_batch: later items are not queried, no decision
\* is made and nothing is written to the vector index.
Thm_C9 == []RetryState /\ [][pc /= "raised"]_vars

Wit_C9 ==
  /\ pc = "raised" /\ i >= 2 /\ i < N
  /\ calls = ec_retry_attempts

\* the decisions of the first p items when every query succeeds at once
RECURSIVE ImmediateRun(_, _)
ImmediateRun(its, p) ==
  IF p = 0 THEN [itc |-> <<>>, audit |-> <<>>, minted |-> 0]
  ELSE LET st == ImmediateRun(its, p - 1)
           id == its[p]
           ce == clustered_existing(find_similar(id))
           cands == BatchCandidates(p, its, st.itc)
           j == FirstBatchMatch(p, its, st.itc)
           d == IF ce /= <<>>
                THEN Decision(id, ce[1].metadata.cluster_id, "joined_existing",
                              ce[1].score, ce[1].id)
                ELSE IF cands /= {}
                THEN Decision(id, st.itc[its[j]], "joined_batch",
                              Cos(id, its[j]), its[j])
                ELSE Decision(id, uuid4(st.minted), "created_new", -1, 0)
       IN [itc |-> Put(st.itc, id, d.cluster_id),
           audit |-> Put(st.audit, id, d),
           minted |-> IF d.decision_type = "created_new"
                      THEN st.minted + 1 ELSE st.minted]

\* C10: a batch whose Phase-1 query raises on attempts 1 and 2 and succeeds
\* on attempt 3 gets the decisions of the same batch with immediately
\* successful queries; find_similar is then called 3 times for the item and
\* the delay is taken twice, once between consecutive attempts.
Thm_C10 ==
  /\ last_call = "ok" => sleeps = calls - 1
  /\ (last_call = "ok" /\ calls = 3) => sleeps = 2
  /\ pc \in {"phase2", "prepare", "upsert", "aggregate", "returned"} =>
       \A id \in Range(items) : existing_matches[id] = find_similar(id)
  /\ pc = "returned" =>
       /\ result.audit_trail = ImmediateRun(items, N).audit
       /\ \A a, b \in Range(items) :
            (\E c \in DOMAIN result.clusters :
               {a, b} \subseteq Range(result.clusters[c]))
              <=> ImmediateRun(items, N).itc[a] = ImmediateRun(items, N).itc[b]

Wit_C10 ==
  /\ pc = "returned" /\ ec_retry_attempts = 3
  /\ last_call = "ok" /\ calls = 3 /\ sleeps = 2
  /\ \E id \in DOMAIN result.audit_trail :
       result.audit_trail[id].decision_type = "joined_existing"
  /\ \E id \in DOMAIN result.audit_trail :
       result.audit_trail[id].decision_type = "joined_batch"

Grouping(itc) == {{b \in DOMAIN itc : itc[b] = itc[a]} : a \in DOMAIN itc}
BatchOrders(its) ==
  {p \in [1..Len(its) -> Range(its)] : Range(p) = Range(its)}

\* C17: the engine is order independent: a batch and any permutation of it
\* are grouped into the same partition of the items.
CE_C17 ==
  pc = "returned" =>
    \A p \in BatchOrders(items) :
      Grouping(ImmediateRun(p, N).itc) = Grouping(item_to_cluster)

\* =========================================================================
\* Clustering jobs: backend/clustering_runner.py (maybe_start_clustering,
\* run_clustering_job, _run_vector_clustering) over the job store, the
\* per-project lock, the unclustered set and the cluster store.  The calls
\* of one project are interleaved step by step (several workers).
\* =========================================================================
Jobs == 1..MaxJobs

EngineAtRest ==
  /\ items = <<>> /\ pc = "rest" /\ i = 0 /\ attempt = 0
  /\ existing_matches = <<>> /\ item_to_cluster = <<>> /\ audit_trail = <<>>
  /\ cluster_members = <<>> /\ upserts = <<>> /\ index = InitialIndex
  /\ store_upserts = 0 /\ minted = 0 /\ result = NoResult /\ calls = 0
  /\ sleeps = 0 /\ last_call = "none" /\ phase3_entries = 0

\* the unclustered items of the project when the first job is created
InitialUnclustered == {1, 2, 3}
\* the cluster store before the first job: cluster 9 may or may not be there
InitialClusterStores == {<<>>, [c \in {9} |-> {51}]}

NoStats == [clustered |-> -1, new_clusters |-> -1, updated_clusters |-> -1]
NoJob == [status |-> "none", error |-> "", finished |-> FALSE, stats |-> NoStats]
NoLocal == [items |-> <<>>, result |-> NoResult, err |-> "", pos |-> 0,
            new_clusters |-> <<>>, updated_cluster_ids |-> {}]
NoHist == [acquires |-> 0, acquired |-> FALSE, released |-> FALSE,
           scheduled |-> FALSE, engine_called |-> FALSE, written |-> {}]

AlreadyRunning == "Clustering already running for project"
EmbeddingFailed == "Embedding generation failed"

\* the list get_unclustered_feedback returns for a set of ids
RECURSIVE SortedSeq(_)
SortedSeq(S) ==
  IF S = {} THEN <<>>
  ELSE LET m == CHOOSE x \in S : \A y \in S : x <= y
       IN <<m>> \o SortedSeq(S \ {m})

\* str(uuid4()) of job j: ids of different jobs never collide
JobCid(j, c) == IF c > UuidBase THEN c + UuidBase * j ELSE c

\* cluster ids of an item -> cluster map in order of first use
RECURSIVE CidOrder(_, _, _)
CidOrder(its, itc, p) ==
  IF p = 0 THEN <<>>
  ELSE LET before == CidOrder(its, itc, p - 1)
       IN IF itc[its[p]] \in Range(before) THEN before
          ELSE Append(before, itc[its[p]])

\* the ClusteringResult cluster_batch returns to job j for the batch its
EngineResult(j, its) ==
  LET run == ImmediateRun(its, Len(its))
      order == CidOrder(its, run.itc, Len(its))
      cm == [k \in 1..Len(order) |->
               [cid |-> order[k],
                members |-> SelectSeq(its, LAMBDA x : run.itc[x] = order[k])]]
      new == new_cluster_ids(cm, run.audit)
      upd == updated_cluster_ids(cm, run.audit)
  IN [items_clustered |-> Len(its),
      new_clusters |-> [k \in 1..Len(new) |-> JobCid(j, new[k])],
      updated_clusters |-> [k \in 1..Len(upd) |-> JobCid(j, upd[k])],
      audit_trail |-> [id \in DOMAIN run.audit |->
                         [run.audit[id] EXCEPT !.cluster_id = JobCid(j, @)]],
      clusters |-> [k \in 1..Len(cm) |->
                      [cid |-> JobCid(j, cm[k].cid), members |-> cm[k].members]]]

JobInit ==
  /\ EngineAtRest /\ FnAtRest
  /\ job_rec = [j \in Jobs |-> NoJob]
  /\ lock = 0
  /\ unclustered = InitialUnclustered
  /\ cluster_store \in InitialClusterStores
  /\ jpc = [j \in Jobs |-> "idle"]
  /\ jlocal = [j \in Jobs |-> NoLocal]
  /\ jhist = [j \in Jobs |-> NoHist]

JobFrame == UNCHANGED <<vars, fnvars>>

\* ---------------------------------------------------- maybe_start_clustering
\* job = ClusterJob(status="pending", ...); add_cluster_job(job)
J_Create(j) ==
  /\ jpc[j] = "idle" /\ \A k \in 1..(j - 1) : jpc[k] /= "idle"
  /\ job_rec' = [job_rec EXCEPT ![j] = [NoJob EXCEPT !.status = "pending"]]
  /\ jpc' = [jpc EXCEPT ![j] = "created"]
  /\ UNCHANGED <<lock, unclustered, cluster_store, jlocal, jhist>>
  /\ JobFrame

\* locked = acquire_cluster_lock(project_id, job_id, ttl_seconds=600): True
J_AcquireOk(j) ==
  /\ jpc[j] = "created" /\ lock = 0
  /\ lock' = j
  /\ jhist' = [jhist EXCEPT ![j].acquires = @ + 1, ![j].acquired = TRUE]
  /\ jpc' = [jpc EXCEPT ![j] = "locked"]
  /\ UNCHANGED <<job_rec, unclustered, cluster_store, jlocal>>
  /\ JobFrame

J_AcquireFail_steal(j) ==
  /\ jpc[j] = "created" /\ lock /= 0
  /\ jhist' = [jhist EXCEPT ![j].acquires = @ + 1]
  /\ job_rec' = [job_rec EXCEPT ![j].status = "failed",
                                ![j].error = AlreadyRunning,
                                ![j].finished = TRUE]
  /\ lock' = 0
  /\ jpc' = [jpc EXCEPT ![j] = "lost"]
  /\ UNCHANGED <<unclustered, cluster_store, jlocal>>
  /\ JobFrame

\* if not locked: update_cluster_job(status="failed", error=...); return job
J_AcquireFail(j) ==
  /\ jpc[j] = "created" /\ lock /= 0
  /\ jhist' = [jhist EXCEPT ![j].acquires = @ + 1]
  /\ job_rec' = [job_rec EXCEPT ![j].status = "failed",
                                ![j].error = AlreadyRunning,
                                ![j].finished = TRUE]
  /\ jpc' = [jpc EXCEPT ![j] = "lost"]
  /\ UNCHANGED <<lock, unclustered, cluster_store, jlocal>>
  /\ JobFrame

\* task = loop.create_task(run_clustering_job(project_id, job_id)); return job
J_Schedule(j) ==
  /\ jpc[j] = "locked"
  /\ jhist' = [jhist EXCEPT ![j].scheduled = TRUE]
  /\ jpc' = [jpc EXCEPT ![j] = "scheduled"]
  /\ UNCHANGED <<job_rec, lock, unclustered, cluster_store, jlocal>>
  /\ JobFrame

\* asyncio.get_running_loop() / create_task raises: the call ends there
J_ScheduleRaise(j) ==
  /\ jpc[j] = "locked"
  /\ jpc' = [jpc EXCEPT ![j] = "crashed"]
  /\ UNCHANGED <<job_rec, lock, unclustered, cluster_store, jlocal, jhist>>
  /\ JobFrame

\* --------------------------------------------------------- run_clustering_job
\* update_cluster_job(project_id, job_id, status="running", started_at=start)
J_MarkRunning(j) ==
  /\ jpc[j] = "scheduled"
  /\ job_rec' = [job_rec EXCEPT ![j].status = "running"]
  /\ jpc' = [jpc EXCEPT ![j] = "read"]
  /\ UNCHANGED <<lock, unclustered, cluster_store, jlocal, jhist>>
  /\ JobFrame

\* that update raises: it stands before the try, the task ends there
J_MarkRunningRaise(j) ==
  /\ jpc[j] = "scheduled"
  /\ jpc' = [jpc EXCEPT ![j] = "crashed"]
  /\ UNCHANGED <<job_rec, lock, unclustered, cluster_store, jlocal, jhist>>
  /\ JobFrame

\* items = get_unclustered_feedback(project_id); if not items: ... return
J_GetItems(j) ==
  /\ jpc[j] = "read"
  /\ jlocal' = [jlocal EXCEPT ![j].items = SortedSeq(unclustered)]
  /\ IF unclustered = {}
     THEN /\ job_rec' = [job_rec EXCEPT
                           ![j].status = "succeeded", ![j].finished = TRUE,
                           ![j].stats = [clustered |-> 0, new_clusters |-> 0,
                                         updated_clusters |-> -1]]
          /\ jpc' = [jpc EXCEPT ![j] = "finally"]
     ELSE /\ jpc' = [jpc EXCEPT ![j] = "embed"]
          /\ UNCHANGED job_rec
  /\ UNCHANGED <<lock, unclustered, cluster_store, jhist>>
  /\ JobFrame

\* ------------------------------------------------------ _run_vector_clustering
J_EmbedRaise_continue(j) ==
  /\ jpc[j] = "embed"
  /\ jlocal' = [jlocal EXCEPT ![j].err = EmbeddingFailed]
  /\ jpc' = [jpc EXCEPT ![j] = "engine"]
  /\ UNCHANGED <<job_rec, lock, unclustered, cluster_store, jhist>>
  /\ JobFrame

\* embed_texts_gemini raises: raise RuntimeError("Embedding generation failed")
J_EmbedRaise(j) ==
  /\ jpc[j] = "embed"
  /\ jlocal' = [jlocal EXCEPT ![j].err = EmbeddingFailed]
  /\ jpc' = [jpc EXCEPT ![j] = "except"]
  /\ UNCHANGED <<job_rec, lock, unclustered, cluster_store, jhist>>
  /\ JobFrame

\* embeddings = clustering.embed_texts_gemini(texts)
J_Embed(j) ==
  /\ jpc[j] = "embed"
  /\ jpc' = [jpc EXCEPT ![j] = "engine"]
  /\ UNCHANGED <<job_rec, lock, unclustered, cluster_store, jlocal, jhist>>
  /\ JobFrame

\* clustering_result = engine.cluster_batch(items, embeddings, project_id)
J_Engine(j) ==
  /\ jpc[j] = "engine"
  /\ jlocal' = [jlocal EXCEPT ![j].result = EngineResult(j, jlocal[j].items)]
  /\ jhist' = [jhist EXCEPT ![j].engine_called = TRUE]
  /\ jpc' = [jpc EXCEPT ![j] = "persist"]
  /\ UNCHANGED <<job_rec, lock, unclustered, cluster_store>>
  /\ JobFrame

\* cluster_batch raises (a Phase-1 query failed on every attempt)
J_EngineRaise(j) ==
  /\ jpc[j] = "engine"
  /\ jlocal' = [jlocal EXCEPT ![j].err = "cluster_batch failed"]
  /\ jhist' = [jhist EXCEPT ![j].engine_called = TRUE]
  /\ jpc' = [jpc EXCEPT ![j] = "except"]
  /\ UNCHANGED <<job_rec, lock, unclustered, cluster_store>>
  /\ JobFrame

J_PersistCluster_trust_engine(j) ==
  /\ jpc[j] = "persist" /\ jlocal[j].pos < Len(jlocal[j].result.clusters)
  /\ LET c == jlocal[j].result.clusters[jlocal[j].pos + 1]
     IN /\ IF c.cid \in Range(jlocal[j].result.updated_clusters)
           THEN /\ cluster_store' = Put(cluster_store, c.cid,
                      (IF c.cid \in DOMAIN cluster_store
                       THEN cluster_store[c.cid] ELSE {}) \cup Range(c.members))
                /\ jlocal' = [jlocal EXCEPT ![j].pos = @ + 1,
                                            ![j].updated_cluster_ids = @ \cup {c.cid}]
           ELSE /\ cluster_store' = Put(cluster_store, c.cid, Range(c.members))
                /\ jlocal' = [jlocal EXCEPT ![j].pos = @ + 1,
                                            ![j].new_clusters = Append(@, c.cid)]
        /\ jhist' = [jhist EXCEPT ![j].written = @ \cup {c.cid}]
  /\ UNCHANGED <<job_rec, lock, unclustered, jpc>>
  /\ JobFrame

\* one turn of "for cluster_id, item_ids in clustering_result.clusters.items()"
J_PersistCluster(j) ==
  /\ jpc[j] = "persist" /\ jlocal[j].pos < Len(jlocal[j].result.clusters)
  /\ LET c == jlocal[j].result.clusters[jlocal[j].pos + 1]
     IN /\ IF c.cid \in DOMAIN cluster_store
           THEN /\ cluster_store' = Put(cluster_store, c.cid,
                                        cluster_store[c.cid] \cup Range(c.members))
                /\ jlocal' = [jlocal EXCEPT ![j].pos = @ + 1,
                                            ![j].updated_cluster_ids = @ \cup {c.cid}]
           ELSE /\ cluster_store' = Put(cluster_store, c.cid, Range(c.members))
                /\ jlocal' = [jlocal EXCEPT ![j].pos = @ + 1,
                                            ![j].new_clusters = Append(@, c.cid)]
        /\ jhist' = [jhist EXCEPT ![j].written = @ \cup {c.cid}]
  /\ UNCHANGED <<job_rec, lock, unclustered, jpc>>
  /\ JobFrame

\* return {"new_clusters": ..., "updated_clusters": ..., ...}
J_PersistReturn(j) ==
  /\ jpc[j] = "persist" /\ jlocal[j].pos = Len(jlocal[j].result.clusters)
  /\ jpc' = [jpc EXCEPT ![j] = "remove"]
  /\ UNCHANGED <<job_rec, lock, unclustered, cluster_store, jlocal, jhist>>
  /\ JobFrame

J_Remove_all(j) ==
  /\ jpc[j] = "remove"
  /\ unclustered' = {}
  /\ jpc' = [jpc EXCEPT ![j] = "finalize"]
  /\ UNCHANGED <<job_rec, lock, cluster_store, jlocal, jhist>>
  /\ JobFrame

\* remove_from_unclustered_batch(processed_pairs)
J_Remove(j) ==
  /\ jpc[j] = "remove"
  /\ unclustered' = unclustered \ Range(jlocal[j].items)
  /\ jpc' = [jpc EXCEPT ![j] = "finalize"]
  /\ UNCHANGED <<job_rec, lock, cluster_store, jlocal, jhist>>
  /\ JobFrame

\* update_cluster_job(status="succeeded", finished_at=..., stats=stats, ...)
J_Finalize(j) ==
  /\ jpc[j] = "finalize"
  /\ job_rec' = [job_rec EXCEPT
                   ![j].status = "succeeded", ![j].finished = TRUE,
                   ![j].stats = [clustered |-> jlocal[j].result.items_clustered,
                                 new_clusters |-> Len(jlocal[j].new_clusters),
                                 updated_clusters |->
                                   Cardinality(jlocal[j].updated_cluster_ids)]]
  /\ jpc' = [jpc EXCEPT ![j] = "finally"]
  /\ UNCHANGED <<lock, unclustered, cluster_store, jlocal, jhist>>
  /\ JobFrame

\* what str(exc) is when the store call of a step raises
StoreError(step) ==
  CASE step = "read" -> "get_unclustered_feedback failed"
    [] step = "persist" -> "cluster store write failed"
    [] step = "remove" -> "remove_from_unclustered_batch failed"
    [] step = "finalize" -> "update_cluster_job failed"

\* a store call inside the try raises
J_StoreRaise(j) ==
  /\ jpc[j] \in {"read", "persist", "remove", "finalize"}
  /\ jpc[j] = "persist" => jlocal[j].pos < Len(jlocal[j].result.clusters)
  /\ jlocal' = [jlocal EXCEPT ![j].err = StoreError(jpc[j])]
  /\ jpc' = [jpc EXCEPT ![j] = "except"]
  /\ UNCHANGED <<job_rec, lock, unclustered, cluster_store, jhist>>
  /\ JobFrame

\* except Exception as exc: update_cluster_job(status="failed", error=str(exc))
J_Except(j) ==
  /\ jpc[j] = "except"
  /\ job_rec' = [job_rec EXCEPT ![j].status = "failed",
                                ![j].error = jlocal[j].err,
                                ![j].finished = TRUE]
  /\ jpc' = [jpc EXCEPT ![j] = "finally"]
  /\ UNCHANGED <<lock, unclustered, cluster_store, jlocal, jhist>>
  /\ JobFrame

\* finally: release_cluster_lock(project_id, job_id)
J_Release(j) ==
  /\ jpc[j] = "finally"
  /\ lock' = IF lock = j THEN 0 ELSE lock
  /\ jhist' = [jhist EXCEPT ![j].released = TRUE]
  /\ jpc' = [jpc EXCEPT ![j] = "done"]
  /\ UNCHANGED <<job_rec, unclustered, cluster_store, jlocal>>
  /\ JobFrame

\* the store drops the lock key when its 600-second lease runs out
LeaseExpire ==
  /\ lock /= 0
  /\ lock' = 0
  /\ UNCHANGED <<job_rec, unclustered, cluster_store, jpc, jlocal, jhist>>
  /\ JobFrame

\* the item an ingest path adds while jobs are under way
IngestItem == 4

\* an ingest path adds a new feedback item to the project's unclustered set
\* while a job that has read its items is at work
Ingest ==
  /\ IngestItem \notin unclustered
  /\ \E j \in Jobs : jpc[j] \in {"embed", "engine", "persist", "remove",
                                  "finalize"}
  /\ \A j \in Jobs : IngestItem \notin Range(jlocal[j].items)
  /\ unclustered' = unclustered \cup {IngestItem}
  /\ UNCHANGED <<job_rec, lock, cluster_store, jpc, jlocal, jhist>>
  /\ JobFrame

JobNext ==
  \/ \E j \in Jobs : J_Create(j)
  \/ \E j \in Jobs : J_AcquireOk(j)
  \/ \E j \in Jobs : J_AcquireFail(j)
  \/ \E j \in Jobs : J_Schedule(j)
  \/ \E j \in Jobs : J_ScheduleRaise(j)
  \/ \E j \in Jobs : J_MarkRunning(j)
  \/ \E j \in Jobs : J_MarkRunningRaise(j)
  \/ \E j \in Jobs : J_GetItems(j)
  \/ \E j \in Jobs : J_Embed(j)
  \/ \E j \in Jobs : J_EmbedRaise(j)
  \/ \E j \in Jobs : J_Engine(j)
  \/ \E j \in Jobs : J_EngineRaise(j)
  \/ \E j \in Jobs : J_PersistCluster(j)
  \/ \E j \in Jobs : J_PersistReturn(j)
  \/ \E j \in Jobs : J_Remove(j)
  \/ \E j \in Jobs : J_Finalize(j)
  \/ \E j \in Jobs : J_StoreRaise(j)
  \/ \E j \in Jobs : J_Except(j)
  \/ \E j \in Jobs : J_Release(j)
  \/ LeaseExpire
  \/ Ingest

allvars == <<vars, jobvars, fnvars>>
JobSpec == JobInit /\ [][JobNext]_allvars

\* the jobs that are between marking themselves running and the finally
Working(j) ==
  jpc[j] \in {"read", "embed", "engine", "persist", "remove", "finalize",
              "except"}

\* C12: when the embedding provider fails inside a clustering job, the batch
\* is aborted before Phase 1: cluster_batch is never entered (no find_similar
\* query, no decision), the job writes no cluster to the cluster store, and
\* the job ends failed with the error message.
Thm_C12 ==
  \A j \in Jobs :
    jlocal[j].err = EmbeddingFailed =>
      /\ jpc[j] \in {"except", "finally", "done"}
      /\ ~jhist[j].engine_called
      /\ jlocal[j].result = NoResult
      /\ jhist[j].written = {}
      /\ jpc[j] \in {"finally", "done"} =>
            /\ job_rec[j].status = "failed"
            /\ job_rec[j].error = EmbeddingFailed
            /\ job_rec[j].finished

Wit_C12 ==
  \E j \in Jobs :
    /\ jpc[j] = "done" /\ jlocal[j].err = EmbeddingFailed
    /\ jlocal[j].items /= <<>>
    /\ job_rec[j].status = "failed"

\* C13 (as stated): whenever a job ends failed, its error field holds the
\* captured error string and the job has written no cluster and no
\* membership to the cluster store.
CE_C13 ==
  \A j \in Jobs :
    job_rec[j].status = "failed" =>
      /\ job_rec[j].error /= ""
      /\ jhist[j].written = {}

\* C14 (as stated): at most one job of the project is executing the
\* clustering work of run_clustering_job at any time.
CE_C14 == Cardinality({j \in Jobs : Working(j)}) <= 1

\* C15: the lock is requested once per maybe_start_clustering call; a job
\* that finds it held is marked failed at once with the error 'Clustering
\* already running for project' and a finish time, is never scheduled,
\* queued or retried, and leaves the holder's lock in place.
LoserState ==
  \A j \in Jobs :
    /\ jhist[j].acquires <= 1
    /\ jpc[j] = "lost" =>
          /\ jhist[j].acquires = 1 /\ ~jhist[j].acquired
          /\ ~jhist[j].scheduled
          /\ job_rec[j].status = "failed"
          /\ job_rec[j].error = AlreadyRunning
          /\ job_rec[j].finished

LoserStep ==
  \A j \in Jobs :
    /\ jpc[j] = "lost" => /\ jpc'[j] = "lost" /\ job_rec'[j] = job_rec[j]
                          /\ jhist'[j] = jhist[j]
    /\ (jpc[j] = "created" /\ jpc'[j] = "lost") =>
          /\ lock /= 0 /\ lock /= j /\ lock' = lock

Thm_C15 == []LoserState /\ [][LoserStep]_allvars

Wit_C15 ==
  \E j \in Jobs :
    /\ jpc[j] = "lost" /\ lock /= 0 /\ lock /= j /\ Working(lock)

\* C16 (as stated): a job that acquired the lock has called
\* release_cluster_lock when its call and its task have ended.
CE_C16 ==
  \A j \in Jobs :
    (jhist[j].acquired /\ jpc[j] \in {"done", "crashed"}) => jhist[j].released

\* =========================================================================
\* The batch strategies of backend/clustering.py: cluster_issues and the
\* label functions it dispatches to.  Embedding components are in tenths
\* (VecUnit), so <<10, 0, 0, 0>> is a unit vector; similarities and
\* thresholds are in thousandths (Scale).
\* =========================================================================
VecUnit == 10

\* float(np.dot(a, b))
cosine(a, b) == (Dot(a, b) * Scale) \div (VecUnit * VecUnit)

IssueVectors ==
  {Embedding[1], Embedding[2], Embedding[4], Embedding[6], Embedding[7],
   <<7, 7, 0, 0>>}
Methods == {"agglomerative", "centroid", "vector_like", "kmeans"}
Thresholds == {sim_threshold, 350, 1500}
MinClusterSizes == {1, 2, 3}

RECURSIVE SeqsUpTo(_, _)
SeqsUpTo(S, n) ==
  IF n = 0 THEN {<<>>}
  ELSE LET shorter == SeqsUpTo(S, n - 1)
       IN shorter \cup {Append(q, x) : q \in {r \in shorter : Len(r) = n - 1},
                                       x \in S}

VectorLikeStep_best(st, embeddings, tau, p) ==
  LET similars == {j \in 1..(p - 1) :
                     cosine(embeddings[p], embeddings[j]) >= tau}
  IN IF similars /= {}
     THEN [labels |-> Append(st.labels,
                             st.labels[CHOOSE j \in similars :
                                \A k \in similars :
                                   cosine(embeddings[p], embeddings[k])
                                     <= cosine(embeddings[p], embeddings[j])]),
           next_cluster |-> st.next_cluster]
     ELSE [labels |-> Append(st.labels, st.next_cluster),
           next_cluster |-> st.next_cluster + 1]

\* one turn of "for i, emb in enumerate(embeddings)" of cluster_vector_like
VectorLikeStep(st, embeddings, tau, p) ==
  LET similars == {j \in 1..(p - 1) :
                     cosine(embeddings[p], embeddings[j]) >= tau}
  IN IF similars /= {}
     THEN [labels |-> Append(st.labels,
                             st.labels[CHOOSE j \in similars :
                                         \A k \in similars : j <= k]),
           next_cluster |-> st.next_cluster]
     ELSE [labels |-> Append(st.labels, st.next_cluster),
           next_cluster |-> st.next_cluster + 1]

\* labels of the first p embeddings under cluster_vector_like
RECURSIVE cluster_vector_like(_, _, _)
cluster_vector_like(embeddings, tau, p) ==
  IF p = 0 THEN [labels |-> <<>>, next_cluster |-> 0]
  ELSE VectorLikeStep(cluster_vector_like(embeddings, tau, p - 1),
                      embeddings, tau, p)

VecAdd(a, b) == [k \in 1..Len(a) |-> a[k] + b[k]]
VecScale(a, c) == [k \in 1..Len(a) |-> a[k] * c]

\* labels.count(k)
Count(labels, k) == Cardinality({x \in 1..Len(labels) : labels[x] = k})

\* int(np.argmax(sims)) for sims[k] = Dot(emb, num_k) / den_k: first maximum
ArgMax(emb, centroids) ==
  CHOOSE k \in 1..Len(centroids) :
    /\ \A m \in 1..Len(centroids) :
         Dot(emb, centroids[k].num) * centroids[m].den
           >= Dot(emb, centroids[m].num) * centroids[k].den
    /\ \A m \in 1..(k - 1) :
         Dot(emb, centroids[m].num) * centroids[k].den
           < Dot(emb, centroids[k].num) * centroids[m].den

CentroidStep_recount(st, emb, tau) ==
  IF st.centroids = <<>>
  THEN [labels |-> <<0>>, centroids |-> <<[num |-> emb, den |-> 1]>>]
  ELSE LET best_idx == ArgMax(emb, st.centroids)
           best == st.centroids[best_idx]
           count_k == Count(st.labels, best_idx - 1) + 1
       IN IF Dot(emb, best.num) * Scale >= tau * best.den * VecUnit * VecUnit
          THEN [labels |-> Append(st.labels, best_idx - 1),
                centroids |-> [st.centroids EXCEPT ![best_idx] =
                   [num |-> VecAdd(VecScale(best.num, count_k),
                                   VecScale(emb, best.den)),
                    den |-> best.den * (count_k + 1)]]]
          ELSE [labels |-> Append(st.labels, Len(st.centroids)),
                centroids |-> Append(st.centroids, [num |-> emb, den |-> 1])]

\* one turn of "for emb in embeddings" of cluster_centroid; a centroid is
\* kept as the exact fraction num / den the running-mean update produces:
\* (centroid * count_k + emb) / (count_k + 1)
CentroidStep(st, emb, tau) ==
  IF st.centroids = <<>>
  THEN [labels |-> <<0>>, centroids |-> <<[num |-> emb, den |-> 1]>>]
  ELSE LET best_idx == ArgMax(emb, st.centroids)
           best == st.centroids[best_idx]
           count_k == Count(st.labels, best_idx - 1)
       IN IF Dot(emb, best.num) * Scale >= tau * best.den * VecUnit * VecUnit
          THEN [labels |-> Append(st.labels, best_idx - 1),
                centroids |-> [st.centroids EXCEPT ![best_idx] =
                   [num |-> VecAdd(VecScale(best.num, count_k),
                                   VecScale(emb, best.den)),
                    den |-> best.den * (count_k + 1)]]]
          ELSE [labels |-> Append(st.labels, Len(st.centroids)),
                centroids |-> Append(st.centroids, [num |-> emb, den |-> 1])]

\* labels and centroids after the first p embeddings under cluster_centroid
RECURSIVE cluster_centroid(_, _, _)
cluster_centroid(embeddings, tau, p) ==
  IF p = 0 THEN [labels |-> <<>>, centroids |-> <<>>]
  ELSE CentroidStep(cluster_centroid(embeddings, tau, p - 1),
                    embeddings[p], tau)

\* [i for i, lbl in enumerate(labels) if lbl == label]
Idxs(labels, label) ==
  SelectSeq([k \in 1..Len(labels) |-> k - 1],
            LAMBDA x : labels[x + 1] = label)

\* the first p turns of "for label in np.unique(labels)"
RECURSIVE Bucket(_, _, _, _)
Bucket(labels, unique, p, min_cluster_size) ==
  IF p = 0 THEN [clusters |-> <<>>, singletons |-> <<>>]
  ELSE LET st == Bucket(labels, unique, p - 1, min_cluster_size)
           idxs == Idxs(labels, unique[p])
       IN IF Len(idxs) >= min_cluster_size
          THEN [clusters |-> Append(st.clusters, idxs),
                singletons |-> st.singletons]
          ELSE [clusters |-> st.clusters,
                singletons |-> st.singletons \o idxs]

IssuesResult_drop(labels, min_cluster_size) ==
  LET unique == SortedSeq(Range(labels))
      b == Bucket(labels, unique, Len(unique), min_cluster_size)
  IN [labels |-> labels, clusters |-> b.clusters, singletons |-> <<>>,
      embed_calls |-> 1]

\* the dict cluster_issues returns for the labels of a strategy, with the
\* number of embed_fn calls made on the way (embeddings = embed_fn(texts))
IssuesResult(labels, min_cluster_size) ==
  LET unique == SortedSeq(Range(labels))
      b == Bucket(labels, unique, Len(unique), min_cluster_size)
  IN [labels |-> labels, clusters |-> b.clusters, singletons |-> b.singletons,
      embed_calls |-> 1]

IssuesInit ==
  /\ EngineAtRest /\ JobsAtRest
  /\ fn_pc = "called"
  /\ fn_in \in [embeddings : SeqsUpTo(IssueVectors, MaxIssues),
                 method : Methods,
                 sim_threshold : Thresholds,
                 min_cluster_size : MinClusterSizes]
  /\ fn_out = <<>>

FnFrame == UNCHANGED <<vars, jobvars>>

\* cluster_issues with method centroid or vector_like
ClusterIssuesGreedy ==
  /\ fn_pc = "called" /\ fn_in.method \in {"centroid", "vector_like"}
  /\ LET n == Len(fn_in.embeddings)
         labels == IF fn_in.method = "centroid"
                   THEN cluster_centroid(fn_in.embeddings,
                                         fn_in.sim_threshold, n).labels
                   ELSE cluster_vector_like(fn_in.embeddings,
                                            fn_in.sim_threshold, n).labels
     IN fn_out' = IssuesResult(labels, fn_in.min_cluster_size)
  /\ fn_pc' = "returned"
  /\ UNCHANGED fn_in
  /\ FnFrame

\* cluster_issues with method agglomerative: no embeddings give no labels,
\* otherwise sklearn's fit_predict gives each item some label
ClusterIssuesAgglomerative ==
  /\ fn_pc = "called" /\ fn_in.method = "agglomerative"
  /\ Len(fn_in.embeddings) /= 1
  /\ \E labels \in [1..Len(fn_in.embeddings) -> 0..(Len(fn_in.embeddings) - 1)] :
       fn_out' = IssuesResult(labels, fn_in.min_cluster_size)
  /\ fn_pc' = "returned"
  /\ UNCHANGED fn_in
  /\ FnFrame

\* raise ValueError: unknown method, or sklearn's AgglomerativeClustering
\* refusing a single sample
ClusterIssuesRaise ==
  /\ fn_pc = "called"
  /\ \/ fn_in.method \notin {"agglomerative", "centroid", "vector_like"}
     \/ fn_in.method = "agglomerative" /\ Len(fn_in.embeddings) = 1
  /\ fn_out' = [labels |-> <<>>, clusters |-> <<>>, singletons |-> <<>>,
                embed_calls |-> 1]
  /\ fn_pc' = "raised"
  /\ UNCHANGED fn_in
  /\ FnFrame

IssuesNext ==
  \/ ClusterIssuesGreedy
  \/ ClusterIssuesAgglomerative
  \/ ClusterIssuesRaise

IssuesSpec == IssuesInit /\ [][IssuesNext]_allvars

\* how often the index idx occurs in the clusters and in the singletons
Occurrences(out, idx) ==
  Cardinality({<<c, k>> \in (1..Len(out.clusters)) \X (1..Len(fn_in.embeddings)) :
                 k <= Len(out.clusters[c]) /\ out.clusters[c][k] = idx})
    + Cardinality({k \in 1..Len(out.singletons) : out.singletons[k] = idx})

GroupOf(out, idx) == {k \in 0..(Len(out.labels) - 1) :
                        out.labels[k + 1] = out.labels[idx + 1]}

CosineVectors ==
  {Embedding[k] : k \in DOMAIN Embedding}
    \cup {<<6, 8, 0, 0>>, <<30, 40, 0, 0>>, <<0, 0, 0, 5>>}

CosineInit ==
  /\ EngineAtRest /\ JobsAtRest
  /\ fn_pc = "called"
  /\ fn_in \in [a : CosineVectors, b : CosineVectors]
  /\ fn_out = <<>>

\* clustering.cosine(a, b)
CallCosine ==
  /\ fn_pc = "called"
  /\ fn_out' = [fn |-> "cosine", value |-> cosine(fn_in.a, fn_in.b)]
  /\ fn_pc' = "returned"
  /\ UNCHANGED fn_in
  /\ FnFrame

\* clustering_runner_v2.cosine_similarity(a, b)
CallCosineSimilarity ==
  /\ fn_pc = "called"
  /\ fn_out' = [fn |-> "cosine_similarity",
                value |-> cosine_similarity(fn_in.a, fn_in.b)]
  /\ fn_pc' = "returned"
  /\ UNCHANGED fn_in
  /\ FnFrame

CosineNext == CallCosine \/ CallCosineSimilarity

CosineSpec == CosineInit /\ [][CosineNext]_allvars

\* C19 (as stated): either primitive returns 1.0 for a nonzero vector with
\* itself, unit length or not, and 0.0 when an argument has zero norm.
CE_C19 ==
  fn_pc = "returned" =>
    /\ (fn_in.a = fn_in.b /\ Norm(fn_in.a) /= 0) => fn_out.value = Scale
    /\ (Norm(fn_in.a) = 0 \/ Norm(fn_in.b) = 0) => fn_out.value = 0

\* =========================================================================
\* prepare_issue_texts (backend/clustering.py).  A string is a sequence of
\* one-character strings; a key that is missing or None is the value None.
\* =========================================================================
None == [none |-> TRUE, s |-> <<>>]
Str(chars) == [none |-> FALSE, s |-> chars]
Chars == {"a", "b", "c", "d", "e", " ", "\n"}
Whitespace == {" ", "\n"}

\* "x or y": the left operand unless it is None or the empty string
Or(x, y) == IF x.none \/ x.s = <<>> THEN y ELSE x

RECURSIVE lstrip(_)
lstrip(t) ==
  IF t = <<>> THEN t
  ELSE IF t[1] \in Whitespace THEN lstrip(Tail(t)) ELSE t

RECURSIVE rstrip(_)
rstrip(t) ==
  IF t = <<>> THEN t
  ELSE IF t[Len(t)] \in Whitespace THEN rstrip(SubSeq(t, 1, Len(t) - 1))
       ELSE t

\* str.strip()
strip(t) == rstrip(lstrip(t))

\* t[:m] for m >= 0
Slice(t, m) == IF m >= Len(t) THEN t ELSE SubSeq(t, 1, m)

PrepareOne_truncate_text(issue, truncate_body_chars) ==
  LET title == strip(Or(issue.title, Str(<<>>)).s)
      body == strip(Or(Or(issue.body, issue.raw_text), Str(<<>>)).s)
      text == IF title /= <<>> /\ body /= <<>>
              THEN title \o <<"\n", "\n">> \o body
              ELSE IF title /= <<>> THEN title ELSE body
  IN IF truncate_body_chars /= 0 /\ Len(text) > truncate_body_chars
     THEN Slice(text, truncate_body_chars) ELSE text

\* one turn of "for issue in issues"
PrepareOne(issue, truncate_body_chars) ==
  LET title == strip(Or(issue.title, Str(<<>>)).s)
      stripped == strip(Or(Or(issue.body, issue.raw_text), Str(<<>>)).s)
      body == IF truncate_body_chars /= 0 /\ Len(stripped) > truncate_body_chars
              THEN Slice(stripped, truncate_body_chars) ELSE stripped
  IN IF title /= <<>> /\ body /= <<>>
     THEN title \o <<"\n", "\n">> \o body
     ELSE IF title /= <<>> THEN title ELSE body

IssuePool ==
  {[title |-> None, body |-> None, raw_text |-> None],
   [title |-> Str(<<"a">>), body |-> None, raw_text |-> None],
   [title |-> None, body |-> Str(<<"a", "b", "c">>), raw_text |-> None],
   [title |-> Str(<<"a">>), body |-> Str(<<"a", "b", "c">>), raw_text |-> None],
   [title |-> Str(<<"a">>), body |-> None, raw_text |-> Str(<<"c", "d", "e">>)],
   [title |-> Str(<<"a">>), body |-> Str(<<>>), raw_text |-> Str(<<"c", "d", "e">>)],
   [title |-> Str(<<" ", "a", " ">>), body |-> Str(<<" ", "a", "b", "\n">>), raw_text |-> None],
   [title |-> Str(<<"a">>), body |-> Str(<<" ">>), raw_text |-> Str(<<"c", "d">>)],
   [title |-> Str(<<" ">>), body |-> Str(<<"a", "b", "c">>), raw_text |-> Str(<<"c", "d">>)],
   [title |-> Str(<<>>), body |-> Str(<<>>), raw_text |-> Str(<<>>)],
   [title |-> Str(<<"a", "b">>), body |-> Str(<<"a", " ", "b", " ", "c">>), raw_text |-> None],
   [title |-> None, body |-> None, raw_text |-> Str(<<" ", "c", "d", "e">>)]}
BodyLimits == {0, 1, 2, 4}

TextsInit ==
  /\ EngineAtRest /\ JobsAtRest
  /\ fn_pc = "called"
  /\ fn_in \in [issues : SeqsUpTo(IssuePool, MaxIssues),
                 truncate_body_chars : BodyLimits]
  /\ fn_out = <<>>

\* texts = prepare_issue_texts(issues, truncate_body_chars)
PrepareIssueTexts ==
  /\ fn_pc = "called"
  /\ fn_out' = [texts |-> [k \in 1..Len(fn_in.issues) |->
                             PrepareOne(fn_in.issues[k],
                                        fn_in.truncate_body_chars)]]
  /\ fn_pc' = "returned"
  /\ UNCHANGED fn_in
  /\ FnFrame

TextsNext == PrepareIssueTexts

TextsSpec == TextsInit /\ [][TextsNext]_allvars

\* the title and the body source of an issue, without surrounding whitespace
TitleOf(issue) == IF issue.title.none THEN <<>> ELSE strip(issue.title.s)
BodySourceOf(issue) ==
  IF ~issue.body.none /\ issue.body.s /= <<>> THEN strip(issue.body.s)
  ELSE IF issue.raw_text.none THEN <<>> ELSE strip(issue.raw_text.s)

\* what follows the title and the blank line in a text
BodyPart(text, title) ==
  IF title = <<>> THEN text
  ELSE IF Len(text) <= Len(title) + 2 THEN <<>>
  ELSE SubSeq(text, Len(title) + 3, Len(text))

IsPrefix(p, t) == Len(p) <= Len(t) /\ p = SubSeq(t, 1, Len(p))

\* the text is title + blank line + body, the title alone or the body alone
Composed(text, title, body) ==
  text = IF title /= <<>> /\ body /= <<>>
         THEN title \o <<"\n", "\n">> \o body
         ELSE IF title /= <<>> THEN title ELSE body

\* C20 (as stated): one text per issue, composed of the title and of a body
\* that is never longer than max_body_chars, whatever max_body_chars is.
CE_C20 ==
  fn_pc = "returned" =>
    /\ Len(fn_out.texts) = Len(fn_in.issues)
    /\ \A k \in 1..Len(fn_in.issues) :
         LET body == BodyPart(fn_out.texts[k], TitleOf(fn_in.issues[k]))
         IN /\ Composed(fn_out.texts[k], TitleOf(fn_in.issues[k]), body)
            /\ Len(body) <= fn_in.truncate_body_chars

\* C20: prepare_issue_texts returns one string per issue, in order; each is
\* the stripped title, a blank line and the body, or the one of them that is
\* not empty, or the empty string.  The body is the stripped body (raw_text
\* when body is missing or empty), cut to its first max_body_chars
\* characters when max_body_chars >= 1 and kept whole when it is 0.
Thm_C20 ==
  fn_pc = "returned" =>
    /\ Len(fn_out.texts) = Len(fn_in.issues)
    /\ \A k \in 1..Len(fn_in.issues) :
         LET title == TitleOf(fn_in.issues[k])
             source == BodySourceOf(fn_in.issues[k])
             body == BodyPart(fn_out.texts[k], title)
             max == fn_in.truncate_body_chars
         IN /\ fn_out.texts[k] \in Seq(Chars)
            /\ Composed(fn_out.texts[k], title, body)
            /\ IsPrefix(body, source)
            /\ max >= 1 => Len(body) = IF Len(source) < max
                                        THEN Len(source) ELSE max
            /\ max = 0 => body = source

Wit_C20 ==
  /\ fn_pc = "returned" /\ Len(fn_in.issues) >= 2
  /\ fn_in.truncate_body_chars = 2
  /\ fn_in.issues[1].body = None /\ fn_in.issues[1].raw_text = Str(<<"c", "d", "e">>)
  /\ fn_out.texts[1] = <<"a", "\n", "\n", "c", "d">>
  /\ fn_out.texts[2] = <<>>

\* a method cluster_issues knows and a similarity threshold within [0, 1]
ValidConfig(in) ==
  /\ in.method \in {"agglomerative", "centroid", "vector_like"}
  /\ in.sim_threshold >= 0 /\ in.sim_threshold <= Scale

\* C21 (as stated): with an unknown method name or an invalid similarity
\* threshold cluster_issues raises before any work is done: embed_fn is not
\* called and no clustering step runs.
CE_C21 ==
  (fn_pc /= "called" /\ ~ValidConfig(fn_in)) =>
    /\ fn_pc = "raised"
    /\ fn_out.embed_calls = 0

\* =========================================================================
\* chunk_file_content (backend/file_utils.py)
\* =========================================================================
ContentChars == {"a", "b"}
ChunkSizes == 1..(MaxContent + 1)

\* content[lo:hi] with 0 <= lo <= hi
PySlice(content, lo, hi) ==
  SubSeq(content, lo + 1, IF hi > Len(content) THEN Len(content) ELSE hi)

chunk_file_content_floor(content, max_chunk_size) ==
  [k \in 1..(Len(content) \div max_chunk_size) |->
     PySlice(content, (k - 1) * max_chunk_size, k * max_chunk_size)]

\* the chunks appended from offset start on, in steps of max_chunk_size
RECURSIVE ChunksFrom(_, _, _)
ChunksFrom(content, max_chunk_size, start) ==
  IF start >= Len(content) THEN <<>>
  ELSE <<PySlice(content, start, start + max_chunk_size)>>
         \o ChunksFrom(content, max_chunk_size, start + max_chunk_size)

chunk_file_content(content, max_chunk_size) ==
  IF content = <<>> THEN <<>> ELSE ChunksFrom(content, max_chunk_size, 0)

ChunkInit ==
  /\ EngineAtRest /\ JobsAtRest
  /\ fn_pc = "called"
  /\ fn_in \in [content : SeqsUpTo(ContentChars, MaxContent),
                 max_chunk_size : ChunkSizes]
  /\ fn_out = <<>>

\* chunks = chunk_file_content(content, max_chunk_size)
ChunkFileContent ==
  /\ fn_pc = "called"
  /\ fn_out' = [chunks |-> chunk_file_content(fn_in.content,
                                              fn_in.max_chunk_size)]
  /\ fn_pc' = "returned"
  /\ UNCHANGED fn_in
  /\ FnFrame

ChunkNext == ChunkFileContent

ChunkSpec == ChunkInit /\ [][ChunkNext]_allvars

RECURSIVE Concat(_, _)
Concat(chunks, n) ==
  IF n = 0 THEN <<>> ELSE Concat(chunks, n - 1) \o chunks[n]

\* C22: for max_chunk_size >= 1 the chunks of chunk_file_content concatenated
\* in order are the content; every chunk but the last has max_chunk_size
\* characters, the last has 1..max_chunk_size; there are
\* ceil(len / max_chunk_size) chunks, and none for empty content.
Thm_C22 ==
  fn_pc = "returned" =>
    LET chunks == fn_out.chunks
        m == fn_in.max_chunk_size
        len == Len(fn_in.content)
    IN /\ Concat(chunks, Len(chunks)) = fn_in.content
       /\ \A k \in 1..(Len(chunks) - 1) : Len(chunks[k]) = m
       /\ chunks /= <<>> =>
            /\ Len(chunks[Len(chunks)]) >= 1
            /\ Len(chunks[Len(chunks)]) <= m
       /\ Len(chunks) = (len + m - 1) \div m
       /\ fn_in.content = <<>> => chunks = <<>>

Wit_C22 ==
  /\ fn_pc = "returned" /\ Len(fn_in.content) = MaxContent
  /\ fn_in.max_chunk_size = 2
  /\ Len(fn_out.chunks) = (MaxContent + 1) \div 2

\* C23: Phase 2 applies the first satisfied rule in the order join-existing,
\* join-batch, create-new: an item with a Phase-1 match carrying a
\* cluster_id is joined_existing even when an earlier batch item is more
\* similar to it, and created_new is recorded only when no Phase-1 match
\* carries a cluster_id and no earlier batch item has cosine >= threshold.
Thm_C23 ==
  \A id \in DOMAIN audit_trail :
    LET near == {k \in 1..(PosOf(id) - 1) : Cos(id, items[k]) >= sim_threshold}
        type == audit_trail[id].decision_type
    IN /\ HasClusteredMatch(existing_matches[id]) <=> type = "joined_existing"
       /\ (~HasClusteredMatch(existing_matches[id]) /\ near /= {})
            <=> type = "joined_batch"
       /\ (~HasClusteredMatch(existing_matches[id]) /\ near = {})
            <=> type = "created_new"

\* a joined_existing item with an earlier batch item that is more similar
\* to it than the match it joined
Wit_C23 ==
  /\ pc = "returned"
  /\ \E id \in DOMAIN audit_trail :
       /\ audit_trail[id].decision_type = "joined_existing"
       /\ \E k \in 1..(PosOf(id) - 1) :
            /\ Cos(id, items[k]) >= sim_threshold
            /\ Cos(id, items[k]) > audit_trail[id].similarity_score
  /\ \E id \in DOMAIN audit_trail : audit_trail[id].decision_type = "created_new"

\* the step in which the first find_similar call for an item returns
FirstCallReturns ==
  /\ pc = "phase1" /\ i <= N /\ attempt = 0
  /\ last_call' = "ok"

OnceOnly ==
  /\ FirstCallReturns =>
       /\ calls' = 1 /\ sleeps' = 0
       /\ pc' = "phase1" /\ attempt' = 0 /\ i' = i + 1
       /\ existing_matches' = Put(existing_matches, items[i], find_similar(items[i]))
  /\ pc' = "sleep" => last_call' = "raised"

\* C24: a Phase-1 query that returns is never retried, also when it returns
\* an empty list: when the first find_similar call for an item does not
\* raise, it is the only call for the item and no retry delay is taken.
Thm_C24 == [][OnceOnly]_vars

Wit_C24 ==
  /\ pc = "phase2" /\ N >= 2
  /\ calls = 1 /\ sleeps = 0 /\ last_call = "ok"
  /\ existing_matches[items[N]] = <<>>

\* C27: a joined_batch decision for an item names an item strictly earlier
\* in the batch and carries the cluster_id of that item's decision,
\* whatever that decision was; when the cluster existed before the batch
\* the result lists it as updated, not as new.
Thm_C27 ==
  \A id \in DOMAIN audit_trail :
    audit_trail[id].decision_type = "joined_batch" =>
      LET m == audit_trail[id].matched_item_id
      IN /\ m \in Range(items) /\ PosOf(m) < PosOf(id)
         /\ m \in DOMAIN audit_trail
         /\ audit_trail[id].cluster_id = audit_trail[m].cluster_id
         /\ (pc = "returned" /\ audit_trail[m].decision_type = "joined_existing")
              => /\ audit_trail[id].cluster_id \in Range(result.updated_clusters)
                 /\ audit_trail[id].cluster_id \notin Range(result.new_clusters)

Wit_C27 ==
  /\ pc = "returned"
  /\ \E id \in DOMAIN audit_trail :
       /\ audit_trail[id].decision_type = "joined_batch"
       /\ audit_trail[audit_trail[id].matched_item_id].decision_type
            = "joined_existing"
  /\ \E id \in DOMAIN audit_trail :
       /\ audit_trail[id].decision_type = "joined_batch"
       /\ audit_trail[audit_trail[id].matched_item_id].decision_type
            = "joined_batch"

\* the labels given to the items before position p
LabelsBefore(labels, p) == {labels[j] : j \in 1..(p - 1)}

\* C25: cluster_vector_like gives an item the label of the lowest-index
\* earlier item with sim >= threshold, even when a later earlier item is
\* more similar, and otherwise the next unused label; labels are numbered
\* 0, 1, 2, ... in order of first appearance, and an item that did not seed
\* a label has sim >= threshold with an earlier item of the same label.
Thm_C25 ==
  (fn_pc = "returned" /\ fn_in.method = "vector_like") =>
    LET e == fn_in.embeddings
        labels == fn_out.labels
    IN /\ Len(labels) = Len(e)
       /\ Len(e) >= 1 => labels[1] = 0
       /\ \A p \in 1..Len(e) :
            LET near == {j \in 1..(p - 1) :
                           cosine(e[p], e[j]) >= fn_in.sim_threshold}
            IN /\ near /= {} =>
                    /\ labels[p] = labels[CHOOSE j \in near :
                                            \A k \in near : j <= k]
                    /\ \E j \in 1..(p - 1) :
                         /\ labels[j] = labels[p]
                         /\ cosine(e[p], e[j]) >= fn_in.sim_threshold
               /\ near = {} =>
                    /\ labels[p] \notin LabelsBefore(labels, p)
                    /\ labels[p] = Cardinality(LabelsBefore(labels, p))

\* an item that took the label of its first similar earlier item although a
\* later one, carrying another label, is more similar
Wit_C25 ==
  /\ fn_pc = "returned" /\ fn_in.method = "vector_like"
  /\ \E p \in 1..Len(fn_in.embeddings) :
       \E j, k \in 1..(p - 1) :
         /\ j < k
         /\ cosine(fn_in.embeddings[p], fn_in.embeddings[j]) >= fn_in.sim_threshold
         /\ cosine(fn_in.embeddings[p], fn_in.embeddings[k])
              > cosine(fn_in.embeddings[p], fn_in.embeddings[j])
         /\ fn_out.labels[j] /= fn_out.labels[k]
         /\ fn_out.labels[p] = fn_out.labels[j]

\* =========================================================================
\* cluster_centroid, one loop turn per step; fn_out holds the locals labels
\* and centroids
\* =========================================================================
CentroidInit ==
  /\ EngineAtRest /\ JobsAtRest
  /\ fn_pc = "loop"
  /\ fn_in \in [embeddings : SeqsUpTo(IssueVectors, MaxIssues),
                 sim_threshold : Thresholds]
  /\ fn_out = [labels |-> <<>>, centroids |-> <<>>]

\* for emb in embeddings: ...
CentroidTurn ==
  /\ fn_pc = "loop" /\ Len(fn_out.labels) < Len(fn_in.embeddings)
  /\ fn_out' = CentroidStep(fn_out, fn_in.embeddings[Len(fn_out.labels) + 1],
                            fn_in.sim_threshold)
  /\ UNCHANGED <<fn_pc, fn_in>>
  /\ FnFrame

\* return np.asarray(labels, dtype=int)
CentroidReturn ==
  /\ fn_pc = "loop" /\ Len(fn_out.labels) = Len(fn_in.embeddings)
  /\ fn_pc' = "returned"
  /\ UNCHANGED <<fn_in, fn_out>>
  /\ FnFrame

CentroidNext == CentroidTurn \/ CentroidReturn

CentroidSpec == CentroidInit /\ [][CentroidNext]_allvars

\* the positions before p that carry label k
MembersBefore(labels, k, p) == {j \in 1..(p - 1) : labels[j] = k}

\* sum over the members m of the dot products (or of one component)
DotSum(e, x, m) ==
  SumTo([j \in 1..Len(e) |-> IF j \in m THEN Dot(x, e[j]) ELSE 0], Len(e))
ComponentSum(e, c, m) ==
  SumTo([j \in 1..Len(e) |-> IF j \in m THEN e[j][c] ELSE 0], Len(e))

\* label k has the highest mean similarity to item p among the labels
\* before p, and no lower label has the same
BestBefore(e, labels, p, k) ==
  LET mk == MembersBefore(labels, k, p)
  IN /\ k \in LabelsBefore(labels, p)
     /\ \A l \in LabelsBefore(labels, p) :
          LET ml == MembersBefore(labels, l, p)
          IN /\ DotSum(e, e[p], mk) * Cardinality(ml)
                  >= DotSum(e, e[p], ml) * Cardinality(mk)
             /\ l < k => DotSum(e, e[p], mk) * Cardinality(ml)
                            > DotSum(e, e[p], ml) * Cardinality(mk)

\* C26: cluster_centroid takes the items in order; an item joins the
\* centroid of highest similarity when that similarity is >= threshold,
\* the lowest index winning a tie, and otherwise seeds a centroid with the
\* next label; after every step each centroid is the plain arithmetic mean
\* of the embeddings assigned to it so far.
Thm_C26 ==
  LET e == fn_in.embeddings
      labels == fn_out.labels
      P == Len(labels)
  IN /\ P <= Len(e)
     /\ fn_pc = "returned" => P = Len(e)
     /\ Len(fn_out.centroids) = Cardinality(LabelsBefore(labels, P + 1))
     /\ \A k \in 1..Len(fn_out.centroids) :
          LET m == MembersBefore(labels, k - 1, P + 1)
              c == fn_out.centroids[k]
          IN /\ m /= {} /\ c.den > 0
             /\ \A x \in 1..Len(c.num) :
                  c.num[x] * Cardinality(m) = c.den * ComponentSum(e, x, m)
     /\ \A p \in 1..P :
          LET before == LabelsBefore(labels, p)
              joins == \E k \in before :
                         /\ BestBefore(e, labels, p, k)
                         /\ DotSum(e, e[p], MembersBefore(labels, k, p)) * Scale
                              >= fn_in.sim_threshold * VecUnit * VecUnit
                                   * Cardinality(MembersBefore(labels, k, p))
          IN /\ joins => BestBefore(e, labels, p, labels[p])
             /\ ~joins => labels[p] = Cardinality(before)

\* the third item is as similar to centroid 0 as to centroid 1 and joins
\* centroid 0, which becomes the mean of two embeddings
Wit_C26 ==
  /\ fn_pc = "returned"
  /\ Len(fn_out.labels) >= 3
  /\ fn_out.labels[1] = 0 /\ fn_out.labels[2] = 1 /\ fn_out.labels[3] = 0
  /\ Dot(fn_in.embeddings[3], fn_in.embeddings[1])
       = Dot(fn_in.embeddings[3], fn_in.embeddings[2])
  /\ fn_out.centroids[1].den = 2

\* ------------------------------------------------- unclustered set and jobs
\* the remove_from_unclustered_batch step of job j
RemoveStep(j) == jpc[j] = "remove" /\ jpc'[j] = "finalize"

\* what one step of the jobs may do to the unclustered set
RemovesOnlyOwnItems ==
  /\ \A j \in Jobs :
       RemoveStep(j) =>
         /\ unclustered' = unclustered \ Range(jlocal[j].items)
         /\ jhist[j].engine_called
         /\ jlocal[j].pos = Len(jlocal[j].result.clusters)
         /\ jlocal[j].err = ""
         /\ job_rec[j].status = "running"
  /\ \A j \in Jobs :
       (jpc'[j] /= jpc[j] /\ ~RemoveStep(j)) => unclustered' = unclustered
  /\ \A j \in Jobs :
       (job_rec'[j].status = "failed" /\ job_rec[j].status /= "failed") =>
         unclustered' = unclustered

\* C28: a job takes out of the unclustered set exactly the items it read at
\* its start, in the one step that follows a clustering and materialization
\* that ended without error; every other step of a job, the failing ones
\* included, leaves the set as it is, so an item added after the read stays
Thm_C28 == [][RemovesOnlyOwnItems]_allvars

\* a job has removed its three items while an item ingested after its read
\* is still in the set
Wit_C28 ==
  \E j \in Jobs :
    /\ jpc[j] = "finalize"
    /\ Len(jlocal[j].items) = 3
    /\ IngestItem \notin Range(jlocal[j].items)
    /\ unclustered = {IngestItem}

\* ------------------------------------------------------ job status lifecycle
\* the task create_task scheduled for job j has ended
TaskEnded(j) == jhist[j].scheduled /\ jpc[j] \in {"done", "crashed"}

\* C29: once the scheduled task of a job has ended, the job's status is
\* terminal (succeeded or failed), never pending or running
CE_C29 ==
  \A j \in Jobs : TaskEnded(j) => job_rec[j].status \in {"succeeded", "failed"}

\* ------------------------------------------- new / updated clusters of a job
\* the persist loop of job j has gone through every cluster of the result
Persisted(j) ==
  /\ jhist[j].engine_called
  /\ jlocal[j].result /= NoResult
  /\ jlocal[j].pos = Len(jlocal[j].result.clusters)

\* C30 as stated: what the job counts as new and as updated is what the
\* engine's result lists as new and as updated, whatever the cluster store held
CE_C30 ==
  \A j \in Jobs :
    /\ Persisted(j) =>
         /\ Range(jlocal[j].new_clusters) = Range(jlocal[j].result.new_clusters)
         /\ jlocal[j].updated_cluster_ids =
              Range(jlocal[j].result.updated_clusters)
    /\ (Persisted(j) /\ job_rec[j].status = "succeeded") =>
         /\ job_rec[j].stats.new_clusters = Len(jlocal[j].result.new_clusters)
         /\ job_rec[j].stats.updated_clusters =
              Len(jlocal[j].result.updated_clusters)

\* one turn of the persist loop of job j classifies by the cluster store
PersistByStore(j) ==
  (jpc[j] = "persist" /\ jlocal'[j].pos = jlocal[j].pos + 1) =>
    LET c == jlocal[j].result.clusters[jlocal[j].pos + 1]
    IN /\ c.cid \in Range(jlocal[j].result.new_clusters) =>
            c.cid \notin DOMAIN cluster_store
       /\ c.cid \notin jlocal[j].updated_cluster_ids
       /\ c.cid \notin Range(jlocal[j].new_clusters)
       /\ IF c.cid \in DOMAIN cluster_store
          THEN /\ jlocal'[j].updated_cluster_ids =
                    jlocal[j].updated_cluster_ids \cup {c.cid}
               /\ jlocal'[j].new_clusters = jlocal[j].new_clusters
               /\ cluster_store'[c.cid] =
                    cluster_store[c.cid] \cup Range(c.members)
          ELSE /\ jlocal'[j].new_clusters = Append(jlocal[j].new_clusters, c.cid)
               /\ jlocal'[j].updated_cluster_ids = jlocal[j].updated_cluster_ids
               /\ cluster_store'[c.cid] = Range(c.members)

\* what the loop has counted when it returns, against the engine's lists
ReturnAgainstEngine(j) ==
  (jpc[j] = "persist" /\ jpc'[j] = "remove") =>
    /\ Range(jlocal[j].result.new_clusters) \subseteq
         Range(jlocal[j].new_clusters)
    /\ jlocal[j].updated_cluster_ids \subseteq
         Range(jlocal[j].result.updated_clusters)
    /\ Len(jlocal[j].new_clusters) + Cardinality(jlocal[j].updated_cluster_ids)
         = Len(jlocal[j].result.clusters)

\* the stats written with status succeeded are the loop's counts
StatsAreCounts(j) ==
  (jpc[j] = "finalize" /\ jpc'[j] = "finally") =>
    /\ job_rec'[j].stats.new_clusters = Len(jlocal[j].new_clusters)
    /\ job_rec'[j].stats.updated_clusters =
         Cardinality(jlocal[j].updated_cluster_ids)
    /\ job_rec'[j].stats.clustered = Len(jlocal[j].items)

\* C30 (amended): the job classifies a cluster of the engine's result by the
\* cluster store: an id the store holds when the loop reaches it gets the
\* members appended and is counted updated, any other id is created and counted
\* new; every id the engine lists as new is counted new, every id counted
\* updated is listed as updated by the engine, and the stats are these counts
Thm_C30 ==
  [][\A j \in Jobs : PersistByStore(j) /\ ReturnAgainstEngine(j)
                     /\ StatsAreCounts(j)]_allvars

\* a job has succeeded counting as new a cluster the engine listed as updated,
\* the cluster store having held no cluster of that id
Wit_C30 ==
  \E j \in Jobs :
    /\ job_rec[j].status = "succeeded" /\ Persisted(j)
    /\ job_rec[j].stats.new_clusters > Len(jlocal[j].result.new_clusters)
    /\ job_rec[j].stats.updated_clusters <
         Len(jlocal[j].result.updated_clusters)
    /\ Len(jlocal[j].result.new_clusters) > 0
====
